---------------------------- MODULE Spec2Model ----------------------------
(***************************************************************************)
(* A model of the security-scan core of the phishing-detection repository: *)
(*   - ComprehensiveScanner.scan   (security_scanners/comprehensive_scanner.py)  *)
(*     the orchestrator: submits one task per requested scan type to a     *)
(*     thread pool, collects the futures' results one after the other with *)
(*     future.result(timeout=30), leaves the pool's with-block, then calls *)
(*     the scorer;                                                         *)
(*   - SecurityScorer              (security_scanners/security_scorer.py)  *)
(*     the aggregation of the collected results.                           *)
(*   - SSLScanner, SecurityHeadersScanner  (security_scanners/)            *)
(*     the two scanners whose code is at hand;                             *)
(*   - RateLimiter, AuthenticationManager  (security/api_security.py)      *)
(*     the rate limiter and the token store of the API layer.              *)
(*                                                                         *)
(* A Python dict is a TLA+ function (record): `k in d` is k \in DOMAIN d.  *)
(* A Python list is a sequence.  Time is counted in seconds.               *)
(***************************************************************************)
EXTENDS Integers, Sequences, FiniteSets, TLC

VARIABLES
    pc,               \* where the thread running scan() stands
    phishing_model,   \* TRUE iff PHISHING_AVAILABLE and self.phishing_model is loaded
    scan_types,       \* the scan_types argument (a list of names)
    futures,          \* the futures dict: its keys in insertion order
    task,             \* per scan type: "unsubmitted", "running" or "finished"
    task_result,      \* the value each finished task returned
    scanner_raised,   \* scan types whose scanner raised inside its _run_* wrapper
    dispatched_at,    \* the time each task was submitted
    late,             \* tasks that had not returned 30 s after their submission
    now,              \* the wall clock
    idx,              \* position of the collecting loop in futures
    wait_start,       \* the time the pending future.result(timeout=30) was called
    timed_out,        \* scan types whose future.result raised TimeoutError
    scans,            \* results['scans']
    overall,          \* results['overall'] (empty until the scorer has run)
    report,           \* results['report'] (empty until generated)
    url,              \* the url argument, as urlparse splits it
    server,           \* what the url's host answers: TLS handshakes and the HTTP response
    self_results,     \* the scanners' self.results attributes
    other,            \* the local state of a second call of scan() while the
                      \* first one is scheduled (NoScan if there is none)
    rate_limiter,     \* a RateLimiter object (security/api_security.py)
    auth_manager,     \* an AuthenticationManager object (security/api_security.py)
    api_log           \* what the callers of the two objects have seen so far

vars == <<pc, phishing_model, scan_types, futures, task, task_result,
          scanner_raised, dispatched_at, late, now, idx, wait_start,
          timed_out, scans, overall, report, url, server, self_results,
          other, rate_limiter, auth_manager, api_log>>

\* The objects of security/api_security.py, which no scan touches.
api == <<rate_limiter, auth_manager, api_log>>

\* What no step of one call of scan() changes: its arguments, the world it
\* scans, the scanners' attributes, the other call's local state, and the
\* objects of the API layer.
fixed == <<url, server, self_results, other, api>>

---------------------------------------------------------------------------
(* Bounds of the model.                                                    *)

\* The clock advances in steps of TickSeconds seconds, MaxTicks times at most.
TickSeconds == 10
MaxTicks == 7

\* The scorer is run on scanner scores that are multiples of ScoreStep (and
\* the scores next to the grade limits), and on issue lists of at most
\* MaxIssues issues per scanner.
ScoreStep == 10
MaxIssues == 2

---------------------------------------------------------------------------
(* Program constants.                                                      *)

\* future.result(timeout=30)
TIMEOUT == 30

\* The order in which scan() tests and submits the scan types.
SCAN_ORDER == <<"ssl", "headers", "vulnerabilities", "phishing">>

ScanTypeNames == {SCAN_ORDER[i] : i \in 1..Len(SCAN_ORDER)}

\* scan()'s default for scan_types = None
DEFAULT_SCAN_TYPES == <<"ssl", "headers", "vulnerabilities", "phishing">>

\* quick_scan's scan_types
QUICK_SCAN_TYPES == <<"ssl", "headers">>

---------------------------------------------------------------------------
(* Helpers on sequences and dicts.                                         *)

Range(s) == {s[i] : i \in 1..Len(s)}

\* d[k] = v added to (or replaced in) the dict d
DictSet(d, k, v) == [x \in DOMAIN d \cup {k} |-> IF x = k THEN v ELSE d[x]]

EmptyDict == [x \in {} |-> 0]

\* d.get(k, default)
Get(d, k, default) == IF k \in DOMAIN d THEN d[k] ELSE default

Issue(sev, msg) == [severity |-> sev, message |-> msg]

IssueRec(sev, msg, rec) == [severity |-> sev, message |-> msg, recommendation |-> rec]

---------------------------------------------------------------------------
(* What a call of a scanner produces is an outcome: either                 *)
(*   [raised |-> FALSE, value |-> <the dict returned>]   or                *)
(*   [raised |-> TRUE,  exc |-> <str(e)>].                                 *)
(* Of the dicts returned, the keys that are read afterwards are kept.      *)

Returned(v) == [raised |-> FALSE, value |-> v]

Raised(e) == [raised |-> TRUE, exc |-> e]

---------------------------------------------------------------------------
(* The url and the scanned host.                                           *)
(*                                                                         *)
(* A url is kept as urlparse splits it: scheme, hostname ("" for None),    *)
(* port and path.  port is 0 when the url names none (None and 0 both      *)
(* make `parsed_url.port or 443` take 443) and INVALID_PORT when reading   *)
(* parsed_url.port raises ValueError (not a number, or out of range).      *)

INVALID_PORT == -1

Url(scheme, hostname, port, path) ==
    [scheme |-> scheme, hostname |-> hostname, port |-> port, path |-> path]

HTTPS_URL == Url("https", "example.com", 0, "")        \* https://example.com

HTTP_URL == Url("http", "example.com", 0, "")          \* http://example.com

EMPTY_URL == Url("", "", 0, "")                        \* the empty string

BAD_PORT_URL == Url("http", "example.com", INVALID_PORT, "")  \* http://example.com:99999

URLS ==
    { HTTPS_URL, HTTP_URL, EMPTY_URL, BAD_PORT_URL,
      Url("https", "example.com", 8443, "/login"),     \* https://example.com:8443/login
      Url("https", "example.com", INVALID_PORT, ""),   \* https://example.com:abc
      Url("", "", 0, "example.com"),                   \* example.com
      Url("ftp", "example.com", 0, ""),                \* ftp://example.com
      Url("https", "", 0, "") }                        \* https://

PROTOCOL_NAMES == {"TLSv1.3", "TLSv1.2", "TLSv1.1", "TLSv1.0"}

\* The protocol names for which the ssl module has an attribute
\* PROTOCOL_<name with "." replaced by "_">: PROTOCOL_TLSv1_2 and
\* PROTOCOL_TLSv1_1.  There is no PROTOCOL_TLSv1_3 and no PROTOCOL_TLSv1_0,
\* so getattr(ssl, ..., None) gives None for TLSv1.3 and TLSv1.0.
SSL_PROTOCOL_ATTRIBUTES == {"TLSv1.2", "TLSv1.1"}

\* The protocol versions a default client context offers.
DEFAULT_CONTEXT_PROTOCOLS == {"TLSv1.3", "TLSv1.2"}

WEAK_CIPHERS == <<"RC4", "DES", "3DES", "MD5", "NULL", "EXPORT", "anon">>

CIPHER_NAMES == {"TLS_AES_256_GCM_SHA384", "ECDHE-RSA-DES-CBC3-SHA", "RC4-MD5"}

\* weak.upper() in cipher_name.upper(), on the cipher names of the model
UpperContains(cipher_name, weak) ==
    <<cipher_name, weak>> \in
        { <<"ECDHE-RSA-DES-CBC3-SHA", "DES">>,
          <<"RC4-MD5", "RC4">>, <<"RC4-MD5", "MD5">> }

REQUIRED_HEADERS ==
    << [header |-> "Strict-Transport-Security", severity |-> "high",
        description |-> "HSTS header missing - site vulnerable to SSL stripping attacks",
        recommendation |-> "Add HSTS header to enforce HTTPS"],
       [header |-> "X-Frame-Options", severity |-> "high",
        description |-> "X-Frame-Options missing - site vulnerable to clickjacking",
        recommendation |-> "Add X-Frame-Options header to prevent clickjacking"],
       [header |-> "X-Content-Type-Options", severity |-> "medium",
        description |-> "X-Content-Type-Options missing - MIME type sniffing possible",
        recommendation |-> "Add X-Content-Type-Options header"],
       [header |-> "Content-Security-Policy", severity |-> "high",
        description |-> "CSP header missing - vulnerable to XSS and injection attacks",
        recommendation |-> "Implement Content Security Policy"],
       [header |-> "Referrer-Policy", severity |-> "low",
        description |-> "Referrer-Policy missing - may leak sensitive URLs",
        recommendation |-> "Add Referrer-Policy header"],
       [header |-> "Permissions-Policy", severity |-> "low",
        description |-> "Permissions-Policy missing - browser features not restricted",
        recommendation |-> "Add Permissions-Policy header"] >>

INSECURE_VALUES == [h \in {"X-Frame-Options"} |-> <<"ALLOW-FROM">>] @@
                   [h \in {"X-XSS-Protection"} |-> <<"0">>]

DISCLOSURE_HEADERS == <<"Server", "X-Powered-By", "X-AspNet-Version", "X-AspNetMvc-Version">>

\* The values a response of the model gives each header.
HEADER_VALUES ==
    [h \in {"Strict-Transport-Security"} |->
        { "max-age=31536000; includeSubDomains", "max-age=31536000",
          "max-age=100", "includeSubDomains", "Max-Age=100; includeSubDomains" }] @@
    [h \in {"X-Frame-Options"} |-> {"DENY", "ALLOW-FROM https://partner.example"}] @@
    [h \in {"X-Content-Type-Options"} |-> {"nosniff"}] @@
    [h \in {"Content-Security-Policy"} |->
        { "default-src 'self'", "default-src 'self' 'unsafe-inline'",
          "script-src 'unsafe-inline' 'unsafe-eval'" }] @@
    [h \in {"Referrer-Policy"} |-> {"no-referrer"}] @@
    [h \in {"Permissions-Policy"} |-> {"geolocation=()"}] @@
    [h \in {"X-XSS-Protection"} |-> {"0"}] @@
    [h \in {"Server"} |-> {"nginx/1.18.0"}]

\* insecure_val.lower(), on the values of INSECURE_VALUES
Lower(insecure_val) ==
    CASE insecure_val = "ALLOW-FROM" -> "allow-from"
      [] OTHER -> insecure_val

\* token in value.lower(), on the header values of the model
LowerContains(value, token) ==
    <<value, token>> \in
        { <<"max-age=31536000; includeSubDomains", "max-age">>,
          <<"max-age=31536000; includeSubDomains", "includesubdomains">>,
          <<"max-age=31536000", "max-age">>,
          <<"max-age=100", "max-age">>,
          <<"includeSubDomains", "includesubdomains">>,
          <<"Max-Age=100; includeSubDomains", "max-age">>,
          <<"Max-Age=100; includeSubDomains", "includesubdomains">>,
          <<"ALLOW-FROM https://partner.example", "allow-from">>,
          <<"0", "0">> }

\* token in value, on the header values of the model
Contains(value, token) ==
    <<value, token>> \in
        { <<"default-src 'self' 'unsafe-inline'", "'unsafe-inline'">>,
          <<"script-src 'unsafe-inline' 'unsafe-eval'", "'unsafe-inline'">>,
          <<"script-src 'unsafe-inline' 'unsafe-eval'", "'unsafe-eval'">> }

\* int(value.split('max-age=')[1].split(';')[0].strip()): the split is
\* case-sensitive, so a value without the exact text "max-age=" raises
\* IndexError.
MaxAge(value) ==
    CASE value = "max-age=31536000; includeSubDomains" -> Returned(31536000)
      [] value = "max-age=31536000" -> Returned(31536000)
      [] value = "max-age=100" -> Returned(100)
      [] OTHER -> Raised("IndexError")

\* A response's headers: a dict from the names present to their values.
Headers(hsts, xfo, xcto, csp, referrer, permissions, xss, srv) ==
    LET all == [h \in {"Strict-Transport-Security"} |-> hsts] @@
               [h \in {"X-Frame-Options"} |-> xfo] @@
               [h \in {"X-Content-Type-Options"} |-> xcto] @@
               [h \in {"Content-Security-Policy"} |-> csp] @@
               [h \in {"Referrer-Policy"} |-> referrer] @@
               [h \in {"Permissions-Policy"} |-> permissions] @@
               [h \in {"X-XSS-Protection"} |-> xss] @@
               [h \in {"Server"} |-> srv]
    IN  [h \in {x \in DOMAIN all : all[x] # ""} |-> all[h]]

\* All six required headers with compliant values, and nothing else.
COMPLIANT_HEADERS ==
    Headers("max-age=31536000; includeSubDomains", "DENY", "nosniff",
            "default-src 'self'", "no-referrer", "geolocation=()", "", "")

\* The scanned host: whether it can be reached, whether a verifying client
\* accepts its certificate, the protocol versions it accepts, the cipher it
\* negotiates, and what a GET gets: "ok" (a response with headers), or a
\* read that times out.
Server(reachable, certificate, protocols, cipher, get, headers) ==
    [reachable |-> reachable, certificate |-> certificate,
     protocols |-> protocols, cipher |-> cipher, get |-> get, headers |-> headers]

\* A host that accepts TLSv1.3 and TLSv1.2 only, with a trusted certificate,
\* a strong cipher and all six headers.
GOOD_SERVER ==
    Server(TRUE, "trusted", {"TLSv1.3", "TLSv1.2"}, "TLS_AES_256_GCM_SHA384",
           "ok", COMPLIANT_HEADERS)

UNREACHABLE_SERVER ==
    Server(FALSE, "trusted", {"TLSv1.3", "TLSv1.2"}, "TLS_AES_256_GCM_SHA384",
           "ok", COMPLIANT_HEADERS)

---------------------------------------------------------------------------
(* SSLScanner (security_scanners/ssl_scanner.py).                          *)

\* A handshake with ssl.create_default_context(): the host is reachable,
\* its certificate verifies, and it accepts a version the context offers.
DefaultHandshake(srv) ==
    /\ srv.reachable
    /\ srv.certificate = "trusted"
    /\ srv.protocols \cap DEFAULT_CONTEXT_PROTOCOLS # {}

_get_certificate_info(srv) ==
    IF DefaultHandshake(srv)
    THEN [valid |-> TRUE, not_after |-> "naive"]
    ELSE [error |-> "connection or handshake failed", valid |-> FALSE]

\* (not_after - datetime.now(timezone.utc)).days: not_after comes from
\* cert.not_valid_after.isoformat(), which carries no time zone, so the
\* subtraction of an aware datetime from a naive one raises TypeError.
DaysUntilExpiry(cert_info) == Raised("TypeError")

_check_certificate_validity(cert_info) ==
    IF ~Get(cert_info, "valid", FALSE)
    THEN <<IssueRec("critical", "Invalid or inaccessible SSL certificate",
                    "Install a valid SSL certificate from a trusted CA")>>
    ELSE LET days == DaysUntilExpiry(cert_info)
         IN  IF days.raised THEN << >>
             ELSE IF days.value < 0
             THEN <<IssueRec("critical", "SSL certificate has expired",
                             "Renew the SSL certificate immediately")>>
             ELSE IF days.value < 30
             THEN <<IssueRec("high", "SSL certificate expires soon",
                             "Renew the SSL certificate soon")>>
             ELSE << >>

\* A protocol is recorded as supported iff the ssl module has its
\* PROTOCOL_ attribute and the handshake with that version succeeds.
_check_protocols(srv) ==
    [n \in PROTOCOL_NAMES |->
        n \in SSL_PROTOCOL_ATTRIBUTES /\ srv.reachable /\ n \in srv.protocols]

_check_weak_protocols(protocol_info) ==
    (IF protocol_info["TLSv1.0"] \/ protocol_info["TLSv1.1"]
     THEN <<IssueRec("high", "Deprecated TLS protocols enabled (TLSv1.0/1.1)",
                     "Disable TLSv1.0 and TLSv1.1, use only TLSv1.2 and TLSv1.3")>>
     ELSE << >>)
    \o
    (IF ~protocol_info["TLSv1.3"]
     THEN <<IssueRec("medium", "TLSv1.3 not supported",
                     "Enable TLSv1.3 for better security and performance")>>
     ELSE << >>)

_check_ciphers(srv) ==
    IF DefaultHandshake(srv) THEN [cipher |-> srv.cipher] ELSE EmptyDict

\* One issue for the first weak token found in the cipher's name.
_check_weak_ciphers(cipher_info) ==
    IF "cipher" \in DOMAIN cipher_info
       /\ \E i \in 1..Len(WEAK_CIPHERS) : UpperContains(cipher_info.cipher, WEAK_CIPHERS[i])
    THEN <<IssueRec("high", "Weak cipher suite detected",
                    "Use strong cipher suites (AES-GCM, ChaCha20)")>>
    ELSE << >>

Max(a, b) == IF a > b THEN a ELSE b

Min(a, b) == IF a < b THEN a ELSE b

RECURSIVE Deductions(_, _)
\* The points the issues cost: deduct[severity] for each issue with a
\* known severity; an issue without severity counts as low.
Deductions(issues, deduct) ==
    IF issues = << >> THEN 0
    ELSE LET severity == Get(Head(issues), "severity", "low")
         IN  (IF severity \in DOMAIN deduct THEN deduct[severity] ELSE 0)
             + Deductions(Tail(issues), deduct)

SSL_DEDUCTIONS == [critical |-> 30, high |-> 15, medium |-> 10, low |-> 5]

TLS13_BONUS == 5

\* The grade scale SSLScanner and SecurityHeadersScanner give their score.
ScannerGrade(score) ==
    IF score >= 95 THEN "A+"
    ELSE IF score >= 85 THEN "A"
    ELSE IF score >= 75 THEN "B"
    ELSE IF score >= 65 THEN "C"
    ELSE IF score >= 50 THEN "D"
    ELSE "F"

\* SSLScanner._calculate_score: the bonus is added before the one clamp.
SSLScanner_calculate_score(results) ==
    LET raw == 100 - Deductions(results.issues, SSL_DEDUCTIONS)
               + (IF results.protocols["TLSv1.3"] THEN TLS13_BONUS ELSE 0)
        score == Max(0, Min(100, raw))
    IN  [score |-> score, grade |-> ScannerGrade(score)]

\* SSLScanner.scan(url).  The port is read before the try block, so its
\* ValueError leaves scan(); the methods called inside the try block catch
\* their own exceptions.
SSLScanner_scan(u, srv) ==
    LET hostname == IF u.hostname # "" THEN u.hostname ELSE u.path
    IN  IF u.port = INVALID_PORT THEN Raised("ValueError")
        ELSE IF hostname = ""
        THEN Returned([error |-> "Invalid URL", score |-> 0, grade |-> "F",
                       issues |-> <<Issue("critical", "Invalid URL provided")>>])
        ELSE IF u.scheme # "https"
        THEN Returned([error |-> "Not using HTTPS", score |-> 0, grade |-> "F",
                       issues |-> <<IssueRec("critical",
                                      "Website does not use HTTPS encryption",
                                      "Enable HTTPS with a valid SSL/TLS certificate")>>,
                       has_ssl |-> FALSE])
        ELSE LET cert_info == _get_certificate_info(srv)
                 protocol_info == _check_protocols(srv)
                 cipher_info == _check_ciphers(srv)
                 results == [has_ssl |-> TRUE,
                             certificate |-> cert_info,
                             protocols |-> protocol_info,
                             ciphers |-> cipher_info,
                             issues |-> _check_certificate_validity(cert_info)
                                        \o _check_weak_protocols(protocol_info)
                                        \o _check_weak_ciphers(cipher_info)]
                 sg == SSLScanner_calculate_score(results)
             IN  Returned([has_ssl |-> TRUE,
                           certificate |-> cert_info,
                           protocols |-> protocol_info,
                           ciphers |-> cipher_info,
                           issues |-> results.issues,
                           score |-> sg.score, grade |-> sg.grade])

---------------------------------------------------------------------------
(* SecurityHeadersScanner (security_scanners/headers_scanner.py).          *)

HeaderIssue(sev, header, msg, rec) ==
    [severity |-> sev, header |-> header, message |-> msg, recommendation |-> rec]

\* requests.get(url, timeout=10, allow_redirects=True, verify=True): the
\* response's headers, or the exception raised.
HttpGet(u, srv) ==
    IF u.scheme \notin {"http", "https"} \/ u.hostname = "" \/ u.port = INVALID_PORT
    THEN Raised("InvalidURL")
    ELSE IF ~srv.reachable THEN Raised("ConnectionError")
    ELSE IF u.scheme = "https" /\ ~DefaultHandshake(srv) THEN Raised("SSLError")
    ELSE IF srv.get = "timeout" THEN Raised("Timeout")
    ELSE Returned(srv.headers)

_check_insecure_value(header_name, value) ==
    IF header_name \in DOMAIN INSECURE_VALUES
       /\ \E i \in 1..Len(INSECURE_VALUES[header_name]) :
             LowerContains(value, Lower(INSECURE_VALUES[header_name][i]))
    THEN <<HeaderIssue("high", header_name, "header has insecure value",
                       "Change the header to a secure value")>>
    ELSE << >>

_validate_header(header_name, value) ==
    IF header_name = "Strict-Transport-Security"
    THEN (IF ~LowerContains(value, "max-age")
          THEN <<HeaderIssue("high", header_name,
                             "HSTS header missing max-age directive",
                             "Add max-age directive to HSTS header")>>
          ELSE LET max_age == MaxAge(value)
               IN  IF ~max_age.raised /\ max_age.value < 31536000
                   THEN <<HeaderIssue("medium", header_name,
                                      "HSTS max-age is too short",
                                      "Set HSTS max-age to at least 1 year (31536000 seconds)")>>
                   ELSE << >>)
         \o
         (IF ~LowerContains(value, "includesubdomains")
          THEN <<HeaderIssue("low", header_name,
                             "HSTS header missing includeSubDomains directive",
                             "Add includeSubDomains to protect all subdomains")>>
          ELSE << >>)
    ELSE IF header_name = "Content-Security-Policy"
    THEN (IF Contains(value, "'unsafe-inline'")
          THEN <<HeaderIssue("medium", header_name,
                             "CSP contains 'unsafe-inline' which weakens XSS protection",
                             "Remove 'unsafe-inline' and use nonces or hashes")>>
          ELSE << >>)
         \o
         (IF Contains(value, "'unsafe-eval'")
          THEN <<HeaderIssue("medium", header_name,
                             "CSP contains 'unsafe-eval' which allows dangerous eval()",
                             "Remove 'unsafe-eval' from CSP")>>
          ELSE << >>)
    ELSE << >>

_check_deprecated_headers(headers) ==
    IF "X-XSS-Protection" \in DOMAIN headers
    THEN <<HeaderIssue("low", "X-XSS-Protection",
                       "X-XSS-Protection header is deprecated",
                       "Remove X-XSS-Protection and use Content-Security-Policy instead")>>
    ELSE << >>

RECURSIVE _check_information_disclosure(_, _)
\* One low issue for each of the disclosure headers from the i-th on that
\* the response carries.
_check_information_disclosure(headers, i) ==
    IF i > Len(DISCLOSURE_HEADERS) THEN << >>
    ELSE (IF DISCLOSURE_HEADERS[i] \in DOMAIN headers
          THEN <<HeaderIssue("low", DISCLOSURE_HEADERS[i],
                             "header discloses server information",
                             "Remove or obfuscate the header")>>
          ELSE << >>)
         \o _check_information_disclosure(headers, i + 1)

RECURSIVE CheckRequiredHeaders(_, _)
\* The loop over REQUIRED_HEADERS, from the i-th header on.
CheckRequiredHeaders(headers, i) ==
    IF i > Len(REQUIRED_HEADERS) THEN << >>
    ELSE LET info == REQUIRED_HEADERS[i]
         IN  (IF info.header \in DOMAIN headers
              THEN _check_insecure_value(info.header, headers[info.header])
                   \o _validate_header(info.header, headers[info.header])
              ELSE <<HeaderIssue(info.severity, info.header, info.description,
                                 info.recommendation)>>)
             \o CheckRequiredHeaders(headers, i + 1)

HEADERS_DEDUCTIONS == [critical |-> 25, high |-> 15, medium |-> 10, low |-> 5]

SecurityHeadersScanner_calculate_score(results) ==
    LET score == Max(0, Min(100, 100 - Deductions(results.issues, HEADERS_DEDUCTIONS)))
    IN  [score |-> score, grade |-> ScannerGrade(score)]

\* SecurityHeadersScanner.scan(url): the whole body is inside try/except
\* Exception, so it returns in every case.
SecurityHeadersScanner_scan(u, srv) ==
    LET response == HttpGet(u, srv)
    IN  IF response.raised
        THEN IF response.exc = "SSLError"
             THEN Returned([error |-> "SSL Error", score |-> 0, grade |-> "F",
                            issues |-> <<IssueRec("critical",
                                           "SSL certificate validation failed",
                                           "Fix SSL certificate issues first")>>])
             ELSE IF response.exc = "Timeout"
             THEN Returned([error |-> "Timeout", score |-> 0, grade |-> "F",
                            issues |-> <<IssueRec("critical",
                                           "Website did not respond within timeout period",
                                           "Check if website is accessible")>>])
             ELSE Returned([error |-> response.exc, score |-> 0, grade |-> "F",
                            issues |-> <<IssueRec("critical", "Failed to scan headers",
                                           "Ensure the website is accessible")>>])
        ELSE LET headers == response.value
                 results == [issues |-> CheckRequiredHeaders(headers, 1)
                                        \o _check_deprecated_headers(headers)
                                        \o _check_information_disclosure(headers, 1)]
                 sg == SecurityHeadersScanner_calculate_score(results)
             IN  Returned([headers_found |->
                               [h \in {REQUIRED_HEADERS[i].header : i \in 1..Len(REQUIRED_HEADERS)}
                                      \cap DOMAIN headers |-> headers[h]],
                           issues |-> results.issues,
                           score |-> sg.score, grade |-> sg.grade])

---------------------------------------------------------------------------
(* The scanners behind the four scan types.                                *)

\* SSLScanner.scan on the url u while the host is in state srv.
SSLScannerOutcomes(u, srv) == {SSLScanner_scan(u, srv)}

\* SecurityHeadersScanner.scan on the url u while the host is in state srv.
SecurityHeadersScannerOutcomes(u, srv) == {SecurityHeadersScanner_scan(u, srv)}

\* VulnerabilityScanner.scan: the scanner's file is not part of the source
\* tree; by its contract it returns a result with score, grade and issues,
\* and the orchestrator's wrapper provides for its raising.
VulnerabilityScannerOutcomes ==
    { Returned([score |-> 100, grade |-> "A+", issues |-> << >>]),
      Returned([score |-> 70, grade |-> "C",
                issues |-> <<IssueRec("high", "Possible SQL injection",
                                      "Use parameterized queries")>>]),
      Raised("ConnectionError") }

\* The classifier behind the phishing scan: predict() gives the label,
\* predict_proba() the probability of the phishing class (in thousandths),
\* or feature extraction / prediction raises.
ClassifierOutcomes ==
    { Returned([prediction |-> 0, proba_phishing |-> 0]),
      Returned([prediction |-> 0, proba_phishing |-> 425]),
      Returned([prediction |-> 1, proba_phishing |-> 1000]),
      Raised("RuntimeError") }

---------------------------------------------------------------------------
(* The orchestrator's task bodies.                                         *)

\* _run_ssl_scan, _run_headers_scan, _run_vulnerability_scan share one
\* shape: return the scanner's result, or on Exception an error dict with
\* one critical issue.
RunWrapper(outcome, what) ==
    IF outcome.raised
    THEN [error |-> outcome.exc, score |-> 0, grade |-> "F",
          issues |-> <<Issue("critical", what)>>]
    ELSE outcome.value

_run_ssl_scan(outcome) == RunWrapper(outcome, "SSL scan failed")

_run_headers_scan(outcome) == RunWrapper(outcome, "Headers scan failed")

_run_vulnerability_scan(outcome) == RunWrapper(outcome, "Vulnerability scan failed")

\* score = int((1 - probability[1]) * 100), the probability in thousandths
PhishingScore(proba_phishing) == ((1000 - proba_phishing) * 100) \div 1000

PhishingGrade(score) ==
    IF score >= 90 THEN "A+"
    ELSE IF score >= 80 THEN "A"
    ELSE IF score >= 70 THEN "B"
    ELSE IF score >= 60 THEN "C"
    ELSE IF score >= 50 THEN "D"
    ELSE "F"

_run_phishing_scan(available, outcome) ==
    IF ~available
    THEN [error |-> "Phishing detection not available", score |-> 50,
          grade |-> "C", issues |-> << >>]
    ELSE IF outcome.raised
    THEN [error |-> outcome.exc, score |-> 50, grade |-> "C",
          issues |-> <<Issue("medium", "Phishing scan failed")>>]
    ELSE LET is_phishing == outcome.value.prediction = 1
             score == PhishingScore(outcome.value.proba_phishing)
         IN  [score |-> score, grade |-> PhishingGrade(score),
              issues |-> IF is_phishing
                         THEN <<IssueRec("critical", "Phishing website detected",
                                 "Do not enter any personal information on this website")>>
                         ELSE << >>]

\* What the scanner behind scan type p can do on the url u while the host
\* is in state srv.
ScannerOutcomesAt(p, u, srv) ==
    CASE p = "ssl" -> SSLScannerOutcomes(u, srv)
      [] p = "headers" -> SecurityHeadersScannerOutcomes(u, srv)
      [] p = "vulnerabilities" -> VulnerabilityScannerOutcomes
      [] p = "phishing" -> ClassifierOutcomes

\* What it can do in the scan at hand.
ScannerOutcomes(p) == ScannerOutcomesAt(p, url, server)

\* The value the task submitted for scan type p returns.
TaskBody(p, available, outcome) ==
    CASE p = "ssl" -> _run_ssl_scan(outcome)
      [] p = "headers" -> _run_headers_scan(outcome)
      [] p = "vulnerabilities" -> _run_vulnerability_scan(outcome)
      [] p = "phishing" -> _run_phishing_scan(available, outcome)

\* The entry the collecting loop writes when future.result raises: for the
\* TimeoutError of a timed-out wait str(e) is the empty string.
ResultExceptionEntry(e) == [error |-> e, score |-> 0, grade |-> "F"]

---------------------------------------------------------------------------
(* SecurityScorer.  Scores of the scanners are integers; the overall score *)
(* is a float rounded to one decimal and is kept in tenths (953 is 95.3).  *)
(* The weights are kept in hundredths.                                     *)

SCANNER_WEIGHTS == [ssl |-> 25, headers |-> 20, vulnerabilities |-> 30, phishing |-> 25]

\* The keys of a results dict in iteration order: scan() inserts them in
\* the order of its futures, which is SCAN_ORDER.
Keys(d) == SelectSeq(SCAN_ORDER, LAMBDA k : k \in DOMAIN d)

\* The scanner types whose score enters the overall score.
Scored(scan_results) ==
    {p \in DOMAIN SCANNER_WEIGHTS :
        p \in DOMAIN scan_results /\ "score" \in DOMAIN scan_results[p]}

\* scores[scanner_type] = score
ScannerScores(scan_results) == [p \in Scored(scan_results) |-> scan_results[p].score]

RECURSIVE SumOver(_, _)
SumOver(S, f) ==
    IF S = {} THEN 0
    ELSE LET x == CHOOSE y \in S : TRUE IN f[x] + SumOver(S \ {x}, f)

\* weighted_score, in hundredths
WeightedScore(scan_results) ==
    SumOver(Scored(scan_results),
            [p \in Scored(scan_results) |-> scan_results[p].score * SCANNER_WEIGHTS[p]])

\* Mutant: the weights of all four scanner types are counted, present or not.
TotalWeight_AllWeights(scan_results) ==
    SumOver(DOMAIN SCANNER_WEIGHTS, SCANNER_WEIGHTS)

\* total_weight, in hundredths
TotalWeight(scan_results) ==
    SumOver(Scored(scan_results), [p \in Scored(scan_results) |-> SCANNER_WEIGHTS[p]])

\* round(num / den, 1) in tenths.  The quotient is a double: off a tie it
\* rounds to the nearest tenth; on an exact tie (x.x5) the double nearest
\* to the quotient lies on either side of it, and so does the result.
Round1(num, den) ==
    LET q == (num * 10) \div den
        r == (num * 10) % den
    IN  IF 2 * r < den THEN {q}
        ELSE IF 2 * r > den THEN {q + 1}
        ELSE {q, q + 1}

\* The values overall_score can take, in tenths.
OverallScores(scan_results) ==
    IF TotalWeight(scan_results) > 0
    THEN Round1(WeightedScore(scan_results), TotalWeight(scan_results))
    ELSE {0}

\* Mutant: the first comparison is strict, so 95.0 is graded A.
_get_grade_Strict(score) ==
    IF score > 950 THEN "A+"
    ELSE IF score >= 900 THEN "A"
    ELSE IF score >= 850 THEN "A-"
    ELSE IF score >= 800 THEN "B+"
    ELSE IF score >= 750 THEN "B"
    ELSE IF score >= 700 THEN "B-"
    ELSE IF score >= 650 THEN "C+"
    ELSE IF score >= 600 THEN "C"
    ELSE IF score >= 550 THEN "C-"
    ELSE IF score >= 500 THEN "D"
    ELSE "F"

\* _get_grade, the score in tenths
_get_grade(score) ==
    IF score >= 950 THEN "A+"
    ELSE IF score >= 900 THEN "A"
    ELSE IF score >= 850 THEN "A-"
    ELSE IF score >= 800 THEN "B+"
    ELSE IF score >= 750 THEN "B"
    ELSE IF score >= 700 THEN "B-"
    ELSE IF score >= 650 THEN "C+"
    ELSE IF score >= 600 THEN "C"
    ELSE IF score >= 550 THEN "C-"
    ELSE IF score >= 500 THEN "D"
    ELSE "F"

\* Mutant: a severity that is no key of severity_order sorts as 'low'.
SeverityKey_UnknownAsLow(issue) ==
    LET severity == Get(issue, "severity", "low")
    IN  CASE severity = "critical" -> 0
          [] severity = "high" -> 1
          [] severity = "medium" -> 2
          [] OTHER -> 3

\* severity_order.get(x.get('severity', 'low'), 4)
SeverityKey(issue) ==
    LET severity == Get(issue, "severity", "low")
    IN  CASE severity = "critical" -> 0
          [] severity = "high" -> 1
          [] severity = "medium" -> 2
          [] severity = "low" -> 3
          [] OTHER -> 4

\* The copies of one scanner's issues, each with issue_copy['scanner'] set.
TaggedIssues(scanner_type, results) ==
    IF "issues" \in DOMAIN results
    THEN [i \in 1..Len(results.issues) |-> DictSet(results.issues[i], "scanner", scanner_type)]
    ELSE << >>

RECURSIVE Flatten(_, _)
Flatten(keys, scan_results) ==
    IF keys = << >> THEN << >>
    ELSE TaggedIssues(Head(keys), scan_results[Head(keys)])
         \o Flatten(Tail(keys), scan_results)

\* list.sort(key=...) is stable: an element goes behind every element
\* whose key is not larger than its own.  The list is sorted as pairs
\* <<key, element>>.
RECURSIVE InsertByKey(_, _)
InsertByKey(sorted, x) ==
    IF sorted = << >> THEN <<x>>
    ELSE IF Head(sorted)[1] <= x[1]
         THEN <<Head(sorted)>> \o InsertByKey(Tail(sorted), x)
         ELSE <<x>> \o sorted

RECURSIVE SortPairs(_)
SortPairs(s) ==
    IF s = << >> THEN << >>
    ELSE InsertByKey(SortPairs(SubSeq(s, 1, Len(s) - 1)), s[Len(s)])

\* s sorted by keys, where keys[i] is the sort key of s[i]
SortByKey(s, keys) ==
    LET sorted == SortPairs([i \in 1..Len(s) |-> <<keys[i], s[i]>>])
    IN  [i \in 1..Len(s) |-> sorted[i][2]]

_aggregate_issues(scan_results) ==
    LET all_issues == Flatten(Keys(scan_results), scan_results)
    IN  SortByKey(all_issues, [i \in 1..Len(all_issues) |-> SeverityKey(all_issues[i])])

\* counts[severity] += 1 for the severities that are keys of counts
_count_by_severity(issues) ==
    [sev \in {"critical", "high", "medium", "low"} |->
        Cardinality({i \in 1..Len(issues) : Get(issues[i], "severity", "low") = sev})]

\* Mutant: the bonus of an SQL injection is larger than the gap between two
\* severities.
_calculate_priority_LargeBonus(issue) ==
    LET severity == Get(issue, "severity", "low")
        base_score == CASE severity = "critical" -> 100
                        [] severity = "high" -> 75
                        [] severity = "medium" -> 50
                        [] severity = "low" -> 25
                        [] OTHER -> 0
    IN  IF Get(issue, "type", "") = "sqli" THEN base_score + 30
        ELSE IF Get(issue, "type", "") = "xss" THEN base_score + 15
        ELSE IF Get(issue, "scanner", "") = "ssl" THEN base_score + 10
        ELSE base_score

_calculate_priority(issue) ==
    LET severity == Get(issue, "severity", "low")
        base_score == CASE severity = "critical" -> 100
                        [] severity = "high" -> 75
                        [] severity = "medium" -> 50
                        [] severity = "low" -> 25
                        [] OTHER -> 0
    IN  IF Get(issue, "type", "") = "sqli" THEN base_score + 20
        ELSE IF Get(issue, "type", "") = "xss" THEN base_score + 15
        ELSE IF Get(issue, "scanner", "") = "ssl" THEN base_score + 10
        ELSE base_score

Recommendation(issue) ==
    [severity |-> Get(issue, "severity", "low"),
     scanner |-> Get(issue, "scanner", "unknown"),
     message |-> Get(issue, "message", ""),
     recommendation |-> Get(issue, "recommendation", ""),
     priority |-> _calculate_priority(issue)]

_prioritize_recommendations(issues) ==
    LET with_rec == SelectSeq(issues, LAMBDA issue : "recommendation" \in DOMAIN issue)
        recommendations == [i \in 1..Len(with_rec) |-> Recommendation(with_rec[i])]
    IN  \* sort(key=priority, reverse=True) keeps the order of equal priorities
        SortByKey(recommendations,
                  [i \in 1..Len(recommendations) |-> 0 - recommendations[i].priority])

\* Mutant: the slice keeps the last ten recommendations.
Top10_Last(s) == SubSeq(s, IF Len(s) < 10 THEN 1 ELSE Len(s) - 9, Len(s))

\* recommendations[:10]
Top10(s) == SubSeq(s, 1, IF Len(s) < 10 THEN Len(s) ELSE 10)

SecurityLevel(overall_score) ==
    IF overall_score >= 900 THEN "Excellent"
    ELSE IF overall_score >= 750 THEN "Good"
    ELSE IF overall_score >= 600 THEN "Fair"
    ELSE IF overall_score >= 400 THEN "Poor"
    ELSE "Critical"

\* Mutant: scan_complete as soon as one scanner has run.
_generate_summary_Any(scan_results, overall_score) ==
    LET scanners_run == SelectSeq(<<"ssl", "headers", "vulnerabilities", "phishing">>,
                                  LAMBDA scanner_type : scanner_type \in DOMAIN scan_results)
    IN  [security_level |-> SecurityLevel(overall_score),
         scanners_run |-> scanners_run,
         scan_complete |-> (Len(scanners_run) > 0)]

\* Mutant: scan_complete when every key of the results is a scanner that ran.
_generate_summary_AllKeys(scan_results, overall_score) ==
    LET scanners_run == SelectSeq(<<"ssl", "headers", "vulnerabilities", "phishing">>,
                                  LAMBDA scanner_type : scanner_type \in DOMAIN scan_results)
    IN  [security_level |-> SecurityLevel(overall_score),
         scanners_run |-> scanners_run,
         scan_complete |-> (Len(scanners_run) = Cardinality(DOMAIN scan_results))]

_generate_summary(scan_results, overall_score) ==
    LET scanners_run == SelectSeq(<<"ssl", "headers", "vulnerabilities", "phishing">>,
                                  LAMBDA scanner_type : scanner_type \in DOMAIN scan_results)
    IN  [security_level |-> SecurityLevel(overall_score),
         scanners_run |-> scanners_run,
         scan_complete |-> (Len(scanners_run) = 4)]

\* The dict calculate_overall_score returns when the rounding gives
\* overall_score.
OverallResult(scan_results, overall_score) ==
    LET all_issues == _aggregate_issues(scan_results)
    IN  [overall_score |-> overall_score,
         grade |-> _get_grade(overall_score),
         scanner_scores |-> ScannerScores(scan_results),
         total_issues |-> Len(all_issues),
         issues_by_severity |-> _count_by_severity(all_issues),
         all_issues |-> all_issues,
         top_recommendations |-> Top10(_prioritize_recommendations(all_issues)),
         summary |-> _generate_summary(scan_results, overall_score)]

calculate_overall_score(scan_results) ==
    {OverallResult(scan_results, s) : s \in OverallScores(scan_results)}

generate_report_data(scan_results, overall_results) ==
    [executive_summary |->
        [overall_score |-> overall_results.overall_score,
         grade |-> overall_results.grade,
         security_level |-> overall_results.summary.security_level,
         total_issues |-> overall_results.total_issues,
         critical_issues |-> overall_results.issues_by_severity["critical"],
         high_issues |-> overall_results.issues_by_severity["high"]],
     scanner_results |-> scan_results,
     detailed_findings |-> overall_results.all_issues,
     recommendations |-> overall_results.top_recommendations]

---------------------------------------------------------------------------
(* RateLimiter and AuthenticationManager (security/api_security.py).       *)
(* A method is an operator from the object's state and the arguments to    *)
(* the value returned and the object's new state; time.time() is the wall  *)
(* clock `now`, in whole seconds.  None and the empty string are both "".  *)

\* defaultdict(deque): d[k] is the empty deque when k was never touched.
Deque(d, k) == IF k \in DOMAIN d THEN d[k] ELSE << >>

\* RateLimiter.__init__
RateLimiter(requests_per_minute, requests_per_hour) ==
    [requests_per_minute |-> requests_per_minute,
     requests_per_hour |-> requests_per_hour,
     minute_requests |-> EmptyDict,
     hour_requests |-> EmptyDict,
     blocked_ips |-> {}]

RECURSIVE PopOld(_, _, _)
\* while requests and current_time - requests[0] > window: requests.popleft()
PopOld(requests, current_time, window) ==
    IF requests # << >> /\ current_time - Head(requests) > window
    THEN PopOld(Tail(requests), current_time, window)
    ELSE requests

\* RateLimiter._clean_old_requests: the limiter after the call.
_clean_old_requests(self, identifier, current_time) ==
    [self EXCEPT
        !.minute_requests = DictSet(self.minute_requests, identifier,
                                PopOld(Deque(self.minute_requests, identifier), current_time, 60)),
        !.hour_requests = DictSet(self.hour_requests, identifier,
                              PopOld(Deque(self.hour_requests, identifier), current_time, 3600))]

\* Mutant: the limits are tested with > instead of >=.
is_allowed_OffByOne(self, client_id, ip_address, current_time) ==
    LET identifier == IF ip_address # "" THEN ip_address ELSE client_id
        cleaned == _clean_old_requests(self, identifier, current_time)
        block == [cleaned EXCEPT !.blocked_ips = @ \cup {identifier}]
    IN  IF identifier \in self.blocked_ips
        THEN [ret |-> FALSE, self |-> self]
        ELSE IF Len(cleaned.minute_requests[identifier]) > self.requests_per_minute
        THEN [ret |-> FALSE, self |-> block]
        ELSE IF Len(cleaned.hour_requests[identifier]) > self.requests_per_hour
        THEN [ret |-> FALSE, self |-> block]
        ELSE [ret |-> TRUE,
              self |-> [cleaned EXCEPT
                          !.minute_requests[identifier] = Append(@, current_time),
                          !.hour_requests[identifier] = Append(@, current_time)]]

\* RateLimiter.is_allowed: the value returned and the limiter after the
\* call.  Nothing in the try block raises.
is_allowed(self, client_id, ip_address, current_time) ==
    LET identifier == IF ip_address # "" THEN ip_address ELSE client_id
        cleaned == _clean_old_requests(self, identifier, current_time)
        block == [cleaned EXCEPT !.blocked_ips = @ \cup {identifier}]
    IN  IF identifier \in self.blocked_ips
        THEN [ret |-> FALSE, self |-> self]
        ELSE IF Len(cleaned.minute_requests[identifier]) >= self.requests_per_minute
        THEN [ret |-> FALSE, self |-> block]
        ELSE IF Len(cleaned.hour_requests[identifier]) >= self.requests_per_hour
        THEN [ret |-> FALSE, self |-> block]
        ELSE [ret |-> TRUE,
              self |-> [cleaned EXCEPT
                          !.minute_requests[identifier] = Append(@, current_time),
                          !.hour_requests[identifier] = Append(@, current_time)]]

\* RateLimiter.unblock_ip
unblock_ip(self, ip_address) == [self EXCEPT !.blocked_ips = @ \ {ip_address}]

\* AuthenticationManager.__init__
AuthenticationManager == [active_tokens |-> EmptyDict, token_expiry |-> EmptyDict]

\* The token of a payload.  The HMAC of the payload's JSON text under the
\* one secret key is a function of the payload and, collisions of SHA-256
\* aside, a different one for each payload: the token is the payload.
Token(user_id, issued_at, expires_at) ==
    [user_id |-> user_id, issued_at |-> issued_at, expires_at |-> expires_at]

\* d without the key k (del d[k])
DictDel(d, k) == [x \in DOMAIN d \ {k} |-> d[x]]

\* AuthenticationManager.generate_token
generate_token(self, user_id, expires_in, current_time) ==
    LET token == Token(user_id, current_time, current_time + expires_in)
    IN  [ret |-> token,
         self |-> [active_tokens |-> DictSet(self.active_tokens, token, user_id),
                   token_expiry |-> DictSet(self.token_expiry, token, current_time + expires_in)]]

\* The empty string given as a token.
EMPTY_TOKEN == Token("", 0, 0)

\* AuthenticationManager.validate_token
validate_token(self, token, current_time) ==
    IF token = EMPTY_TOKEN THEN [ret |-> FALSE, self |-> self]
    ELSE IF token \notin DOMAIN self.active_tokens THEN [ret |-> FALSE, self |-> self]
    ELSE IF token \in DOMAIN self.token_expiry /\ current_time > self.token_expiry[token]
    THEN [ret |-> FALSE,
          self |-> [active_tokens |-> DictDel(self.active_tokens, token),
                    token_expiry |-> DictDel(self.token_expiry, token)]]
    ELSE [ret |-> TRUE, self |-> self]

\* AuthenticationManager.revoke_token
revoke_token(self, token) ==
    IF token \in DOMAIN self.active_tokens
    THEN [ret |-> TRUE,
          self |-> [active_tokens |-> DictDel(self.active_tokens, token),
                    token_expiry |-> DictDel(self.token_expiry, token)]]
    ELSE [ret |-> FALSE, self |-> self]

\* Nothing has been called yet.
NO_CALL == [op |-> "none"]

\* What the callers have seen: per identifier the number of is_allowed calls
\* and of those that returned True and the times of the first and the last
\* call, the identifiers that were unblocked, the tokens generate_token
\* returned, those revoked since, the number of sleeps, and the last call.
NO_LOG ==
    [count |-> EmptyDict, allowed |-> EmptyDict, first_at |-> EmptyDict,
     last_at |-> EmptyDict, unblocked |-> {}, issued |-> {}, revoked |-> {},
     sleeps |-> 0, last |-> NO_CALL]

\* The two objects as constructed by default, not called.
ApiAtRest ==
    /\ rate_limiter = RateLimiter(60, 1000)
    /\ auth_manager = AuthenticationManager
    /\ api_log = NO_LOG

---------------------------------------------------------------------------
(* ComprehensiveScanner.scan as a state machine.                           *)
(*                                                                         *)
(* pc = "submit"    in the with-block, at the four `if ... in scan_types`  *)
(*                  tests (idx counts them)                                *)
(*      "collect"   in the loop over futures.items(), at                   *)
(*                  future.result(timeout=30) of futures[idx]              *)
(*      "exit_pool" at the end of the with-block: ThreadPoolExecutor's     *)
(*                  __exit__ calls shutdown(wait=True)                     *)
(*      "score"     before calculate_overall_score                         *)
(*      "report"    before generate_report_data                            *)
(*      "done"      scan() has returned results                            *)
(*      "raised"    an exception has left scan()                           *)
(*      "probe"     a scanner is called directly, outside scan()           *)
(*      "calculate_score"  a score computation is called on its own        *)
(*      "api"       no scan runs; the API objects are called               *)
(* The steps of the scanning thread take no time; the clock advances only  *)
(* while that thread is blocked in future.result or in shutdown.           *)

\* The scan_types arguments of the calls that are modelled: a list of names,
\* in which a name may repeat or be none of the four scan types.
RequestLists ==
    { DEFAULT_SCAN_TYPES, QUICK_SCAN_TYPES,
      <<"ssl">>, <<"phishing">>, <<"headers", "ssl">>,
      <<"ssl", "phishing">>, <<"vulnerabilities", "phishing">>,
      <<"ssl", "vulnerabilities", "phishing">>,
      <<"ssl", "ssl">>, <<"transport", "headers">> }

\* The scan types of a request that scan() knows and submits.
Requested == Range(scan_types) \cap ScanTypeNames

Running == {p \in ScanTypeNames : task[p] = "running"}

\* The scanners' self.results: set to {} by __init__.
NO_RESULTS == [ssl_scanner |-> EmptyDict, headers_scanner |-> EmptyDict]

\* No second call of scan().
NoScan == [pc |-> "none"]

\* The urls and hosts of the scans that are modelled.
SampleTargets ==
    { <<HTTPS_URL, GOOD_SERVER>>,
      <<HTTPS_URL, UNREACHABLE_SERVER>>,
      <<HTTPS_URL, Server(TRUE, "trusted", {"TLSv1.3", "TLSv1.2"},
                          "TLS_AES_256_GCM_SHA384", "timeout", COMPLIANT_HEADERS)>>,
      <<HTTP_URL, Server(TRUE, "trusted", {"TLSv1.2", "TLSv1.1"}, "RC4-MD5", "ok",
                         Headers("max-age=31536000; includeSubDomains", "DENY",
                                 "nosniff", "default-src 'self'", "",
                                 "geolocation=()", "", ""))>>,
      <<BAD_PORT_URL, GOOD_SERVER>>,
      <<EMPTY_URL, GOOD_SERVER>> }

InitScan ==
    /\ pc = "submit"
    /\ \E target \in SampleTargets : url = target[1] /\ server = target[2]
    /\ self_results = NO_RESULTS
    /\ other = NoScan
    /\ ApiAtRest
    /\ phishing_model \in BOOLEAN
    /\ scan_types \in RequestLists
    /\ futures = << >>
    /\ task = [p \in ScanTypeNames |-> "unsubmitted"]
    /\ task_result = EmptyDict
    /\ scanner_raised = {}
    /\ dispatched_at = EmptyDict
    /\ late = {}
    /\ now = 0
    /\ idx = 1
    /\ wait_start = 0
    /\ timed_out = {}
    /\ scans = EmptyDict
    /\ overall = EmptyDict
    /\ report = EmptyDict

\* The number of times x occurs in the list s.
Occurrences(x, s) == Cardinality({i \in 1..Len(s) : s[i] = x})

\* Mutant: one task is submitted for each entry of scan_types, so a name
\* listed twice is submitted twice.
Submit_PerListEntry ==
    /\ pc = "submit"
    /\ LET p == SCAN_ORDER[idx]
       IN  IF p \in Range(scan_types)
           THEN /\ futures' = futures \o [i \in 1..Occurrences(p, scan_types) |-> p]
                /\ task' = [task EXCEPT ![p] = "running"]
                /\ dispatched_at' = DictSet(dispatched_at, p, now)
           ELSE UNCHANGED <<futures, task, dispatched_at>>
    /\ IF idx < Len(SCAN_ORDER)
       THEN /\ idx' = idx + 1
            /\ UNCHANGED <<pc, wait_start>>
       ELSE /\ idx' = 1
            /\ wait_start' = now
            /\ pc' = IF futures' = << >> THEN "exit_pool" ELSE "collect"
    /\ UNCHANGED <<phishing_model, scan_types, task_result, scanner_raised,
                   late, now, timed_out, scans, overall, report>>
    /\ UNCHANGED fixed

\* if '<name>' in scan_types: futures['<name>'] = executor.submit(...)
\* The pool has max_workers=4 and at most four tasks, so a submitted task
\* starts at once.
Submit ==
    /\ pc = "submit"
    /\ LET p == SCAN_ORDER[idx]
       IN  IF p \in Range(scan_types)
           THEN /\ futures' = Append(futures, p)
                /\ task' = [task EXCEPT ![p] = "running"]
                /\ dispatched_at' = DictSet(dispatched_at, p, now)
           ELSE UNCHANGED <<futures, task, dispatched_at>>
    /\ IF idx < Len(SCAN_ORDER)
       THEN /\ idx' = idx + 1
            /\ UNCHANGED <<pc, wait_start>>
       ELSE /\ idx' = 1
            /\ wait_start' = now
            /\ pc' = IF futures' = << >> THEN "exit_pool" ELSE "collect"
    /\ UNCHANGED <<phishing_model, scan_types, task_result, scanner_raised,
                   late, now, timed_out, scans, overall, report>>
    /\ UNCHANGED fixed

\* A task runs to its end in a worker thread: the scanner returns or
\* raises, and the _run_* wrapper's return value becomes the future's
\* result.
\* Mutant: a task that returns after its entry was written replaces the
\* entry with its own result.
Complete_StoresLate(p) ==
    /\ task[p] = "running"
    /\ \E outcome \in ScannerOutcomes(p) :
          /\ task_result' = DictSet(task_result, p, TaskBody(p, phishing_model, outcome))
          /\ scanner_raised' = IF outcome.raised /\ (p # "phishing" \/ phishing_model)
                               THEN scanner_raised \cup {p}
                               ELSE scanner_raised
          /\ scans' = IF p \in DOMAIN scans
                      THEN DictSet(scans, p, TaskBody(p, phishing_model, outcome))
                      ELSE scans
    /\ task' = [task EXCEPT ![p] = "finished"]
    /\ late' = IF now - dispatched_at[p] > TIMEOUT THEN late \cup {p} ELSE late
    /\ UNCHANGED <<pc, phishing_model, scan_types, futures, dispatched_at, now,
                   idx, wait_start, timed_out, overall, report>>
    /\ UNCHANGED fixed

Complete(p) ==
    /\ task[p] = "running"
    /\ \E outcome \in ScannerOutcomes(p) :
          /\ task_result' = DictSet(task_result, p, TaskBody(p, phishing_model, outcome))
          /\ scanner_raised' = IF outcome.raised /\ (p # "phishing" \/ phishing_model)
                               THEN scanner_raised \cup {p}
                               ELSE scanner_raised
    /\ task' = [task EXCEPT ![p] = "finished"]
    /\ late' = IF now - dispatched_at[p] > TIMEOUT THEN late \cup {p} ELSE late
    /\ UNCHANGED <<pc, phishing_model, scan_types, futures, dispatched_at, now,
                   idx, wait_start, timed_out, scans, overall, report>>
    /\ UNCHANGED fixed

\* The loop moves on to the next future, or leaves the loop.
NextFuture ==
    /\ idx' = idx + 1
    /\ wait_start' = now
    /\ pc' = IF idx < Len(futures) THEN "collect" ELSE "exit_pool"

\* results['scans'][scan_type] = future.result(timeout=30)
StoreResult(sc, scan_type, value) == DictSet(sc, scan_type, value)

\* Mutant: the except clause swallows the exception and records nothing.
StoreException_Pass(sc, scan_type, e) == sc

\* Mutant: the except clause replaces the whole results dict by the failure.
StoreException_Reset(sc, scan_type, e) == [x \in {scan_type} |-> ResultExceptionEntry(e)]

\* except Exception as e: results['scans'][scan_type] = {'error': str(e), ...}
StoreException(sc, scan_type, e) == DictSet(sc, scan_type, ResultExceptionEntry(e))

\* future.result returns the finished task's value.
ResultReturns ==
    /\ pc = "collect"
    /\ LET p == futures[idx]
       IN  /\ task[p] = "finished"
           /\ scans' = StoreResult(scans, p, task_result[p])
    /\ NextFuture
    /\ UNCHANGED <<phishing_model, scan_types, futures, task, task_result,
                   scanner_raised, dispatched_at, late, now, timed_out,
                   overall, report>>
    /\ UNCHANGED fixed

\* The wait of future.result(timeout=30) has lasted 30 s.
WaitExpired == now - wait_start >= TIMEOUT

\* The exception classes of the model that `except Exception` catches:
\* all of them derive from Exception.
ExceptException(exc_class) ==
    exc_class \in {"TimeoutError", "ValueError", "ConnectionError", "RuntimeError"}

\* The wait has expired and the task is still running: future.result raises
\* TimeoutError, which the loop's except clause catches; an exception it
\* did not catch would leave scan().
ResultTimesOut ==
    /\ pc = "collect"
    /\ task[futures[idx]] = "running"
    /\ WaitExpired
    /\ timed_out' = timed_out \cup {futures[idx]}
    /\ IF ExceptException("TimeoutError")
       THEN /\ scans' = StoreException(scans, futures[idx], "")
            /\ NextFuture
       ELSE /\ pc' = "raised"
            /\ UNCHANGED <<scans, idx, wait_start>>
    /\ UNCHANGED <<phishing_model, scan_types, futures, task, task_result,
                   scanner_raised, dispatched_at, late, now, overall, report>>
    /\ UNCHANGED fixed

\* Leaving the with-block: shutdown(wait=True) joins the worker threads,
\* so it returns when no task is running any more.
ExitPool ==
    /\ pc = "exit_pool"
    /\ Running = {}
    /\ pc' = "score"
    /\ UNCHANGED <<phishing_model, scan_types, futures, task, task_result,
                   scanner_raised, dispatched_at, late, now, idx, wait_start,
                   timed_out, scans, overall, report>>
    /\ UNCHANGED fixed

\* overall_results = self.security_scorer.calculate_overall_score(results['scans'])
Score ==
    /\ pc = "score"
    /\ overall' \in calculate_overall_score(scans)
    /\ pc' = "report"
    /\ UNCHANGED <<phishing_model, scan_types, futures, task, task_result,
                   scanner_raised, dispatched_at, late, now, idx, wait_start,
                   timed_out, scans, report>>
    /\ UNCHANGED fixed

\* results['report'] = generate_report_data(...); return results
Report ==
    /\ pc = "report"
    /\ report' = generate_report_data(scans, overall)
    /\ pc' = "done"
    /\ UNCHANGED <<phishing_model, scan_types, futures, task, task_result,
                   scanner_raised, dispatched_at, late, now, idx, wait_start,
                   timed_out, scans, overall>>
    /\ UNCHANGED fixed

\* The scanning thread is blocked: in future.result on a running task whose
\* wait has not expired, or in shutdown while a task is running.
Blocked ==
    \/ pc = "collect" /\ task[futures[idx]] = "running" /\ ~WaitExpired
    \/ pc = "exit_pool" /\ Running # {}

Tick ==
    /\ Blocked
    /\ now < MaxTicks * TickSeconds
    /\ now' = now + TickSeconds
    /\ late' = late \cup {p \in Running : now' - dispatched_at[p] > TIMEOUT}
    /\ UNCHANGED <<pc, phishing_model, scan_types, futures, task, task_result,
                   scanner_raised, dispatched_at, idx, wait_start, timed_out,
                   scans, overall, report>>
    /\ UNCHANGED fixed

\* The steps of the thread that runs scan().
ScanStep == Submit \/ ResultReturns \/ ResultTimesOut \/ ExitPool \/ Score \/ Report

Next ==
    \/ Submit
    \/ \E p \in ScanTypeNames : Complete(p)
    \/ ResultReturns
    \/ ResultTimesOut
    \/ ExitPool
    \/ Score
    \/ Report
    \/ Tick

Spec == InitScan /\ [][Next]_vars

---------------------------------------------------------------------------
(* The scorer on its own: calculate_overall_score and generate_report_data *)
(* applied to a results dict drawn from a bounded set of inputs.           *)

ScoreSamples == {s \in 0..100 : s % ScoreStep = 0 \/ s \in {49, 50, 95, 100}}

\* Results dicts whose scores vary: any subset of the scan types, no issues.
ScoreInputs ==
    UNION { [S -> {[score |-> s, grade |-> ScannerGrade(s), issues |-> << >>] : s \in ScoreSamples}]
            : S \in SUBSET ScanTypeNames }

MESSAGES ==
    <<"first", "second", "third", "fourth", "fifth", "sixth", "seventh",
      "eighth", "ninth", "tenth", "eleventh", "twelfth", "thirteenth">>

\* The k-th issue of a list; the severity "" stands for an issue dict
\* without the key 'severity'.
SampleIssue(sev, k) ==
    IF sev = "" THEN [message |-> MESSAGES[k]] ELSE Issue(sev, MESSAGES[k])

\* The issue lists of at most MaxIssues issues with severities in sevs.
IssueLists(sevs) ==
    UNION { { [k \in 1..n |-> SampleIssue(f[k], k)] : f \in [1..n -> sevs] }
            : n \in 0..MaxIssues }

\* The severities each scanner's issues are drawn from.  The SSL and header
\* scanners and the phishing scan emit the four known severities only; the
\* vulnerability scanner is free to emit others, or none.
IssueSeverities ==
    [ssl |-> {"critical", "medium"},
     headers |-> {"high", "low"},
     vulnerabilities |-> {"low", "info", ""},
     phishing |-> {"critical"}]

IssueResults(p) ==
    { [score |-> 50, grade |-> "D", issues |-> l] :
        l \in IF p = "phishing"
              THEN {l1 \in IssueLists(IssueSeverities[p]) : Len(l1) <= 1}
              ELSE IssueLists(IssueSeverities[p]) }

\* No entry for a scan type.
Absent == [absent |-> TRUE]

\* The dict with the entries that are not Absent.
DictOf(ssl, headers, vulnerabilities, phishing) ==
    LET all == [p \in ScanTypeNames |->
                   CASE p = "ssl" -> ssl
                     [] p = "headers" -> headers
                     [] p = "vulnerabilities" -> vulnerabilities
                     [] p = "phishing" -> phishing]
    IN  [p \in {q \in ScanTypeNames : all[q] # Absent} |-> all[p]]

\* Results dicts whose issues vary.
IssueInputs ==
    { DictOf(a, b, c, d) :
        a \in IssueResults("ssl") \cup {Absent},
        b \in IssueResults("headers") \cup {Absent},
        c \in IssueResults("vulnerabilities") \cup {Absent},
        d \in IssueResults("phishing") \cup {Absent} }

\* Results dicts with failed scans: per scan type a scanner's result, the
\* error dict of a _run_* wrapper, or the entry of the collecting loop's
\* except clause.
ErrorResults ==
    { [score |-> 100, grade |-> "A+", issues |-> << >>],
      RunWrapper(Raised("ConnectionError"), "scan failed"),
      ResultExceptionEntry("") }

ErrorInputs ==
    { DictOf(a, b, c, d) :
        a \in ErrorResults \cup {Absent}, b \in ErrorResults \cup {Absent},
        c \in ErrorResults \cup {Absent}, d \in ErrorResults \cup {Absent} }

\* The issues that carry what the recommendations are ranked by: a severity
\* ("" for none), a type ("" for none), and a recommendation or not.
RecIssue(sev, type, has_rec) ==
    LET a == [message |-> "finding"]
        b == IF sev = "" THEN a ELSE DictSet(a, "severity", sev)
        c == IF type = "" THEN b ELSE DictSet(b, "type", type)
    IN  IF has_rec THEN DictSet(c, "recommendation", "fix the finding") ELSE c

RecommendedIssues ==
    { RecIssue(sev, type, TRUE) :
        sev \in {"critical", "high", "medium", "low", "info", ""},
        type \in {"sqli", "xss", ""} }

RecIssueKinds ==
    RecommendedIssues \cup {RecIssue("critical", "", FALSE), RecIssue("low", "sqli", FALSE)}

\* The issues of a list told apart by their messages.
Numbered(issues) == [k \in 1..Len(issues) |-> DictSet(issues[k], "message", MESSAGES[k])]

\* The lists of at most n issues of the kinds given.
ListsUpTo(kinds, n) == UNION { {Numbered(l) : l \in [1..m -> kinds]} : m \in 0..n }

\* The long issue lists are MaxFiller - 1 or MaxFiller equal issues followed
\* by two more, so that more than ten recommendations compete.
MaxFiller == 10

FILLERS == {RecIssue("high", "", TRUE), RecIssue("medium", "xss", TRUE)}

LongIssueLists ==
    { Numbered([k \in 1..n |-> filler] \o tail) :
        filler \in FILLERS, n \in (MaxFiller - 1)..MaxFiller,
        tail \in [1..2 -> RecommendedIssues] }

ResultsWith(issues) == [score |-> 50, grade |-> "D", issues |-> issues]

\* Results dicts whose issues carry recommendations: one issue of the SSL
\* scanner beside one of the vulnerability scanner, a short list of the
\* vulnerability scanner, or a long one.
RecommendationInputs ==
    { DictOf(ResultsWith(a), Absent, ResultsWith(c), Absent) :
        a \in ListsUpTo(RecIssueKinds, 1), c \in ListsUpTo(RecIssueKinds, 1) }
    \cup
    { DictOf(Absent, Absent, ResultsWith(c), Absent) :
        c \in ListsUpTo(RecIssueKinds, MaxIssues) \cup LongIssueLists }

InitScorer ==
    /\ pc = "score"
    /\ scans \in ScoreInputs \cup IssueInputs \cup ErrorInputs \cup RecommendationInputs
    /\ phishing_model = FALSE
    /\ scan_types = Keys(scans)
    /\ futures = Keys(scans)
    /\ task = [p \in ScanTypeNames |-> IF p \in DOMAIN scans THEN "finished" ELSE "unsubmitted"]
    /\ task_result = scans
    /\ scanner_raised = {}
    /\ dispatched_at = [p \in DOMAIN scans |-> 0]
    /\ late = {}
    /\ now = 0
    /\ idx = Len(futures) + 1
    /\ wait_start = 0
    /\ timed_out = {}
    /\ overall = EmptyDict
    /\ report = EmptyDict
    /\ url = HTTPS_URL
    /\ server = GOOD_SERVER
    /\ self_results = NO_RESULTS
    /\ other = NoScan
    /\ ApiAtRest

NextScorer ==
    \/ Score
    \/ Report

SpecScorer == InitScorer /\ [][NextScorer]_vars

---------------------------------------------------------------------------
(* The two scanners on their own: SSLScanner.scan(url) and                 *)
(* SecurityHeadersScanner.scan(url) called directly, on a url and a host   *)
(* drawn from bounded sets.  task[p] = "finished" once the scanner of p    *)
(* has been called; task_result[p] is the dict it returned, and p is in    *)
(* scanner_raised if it raised instead.                                    *)

\* The hosts that differ in their TLS side.
TLSServers ==
    { Server(reachable, certificate, protocols, cipher, "ok", COMPLIANT_HEADERS) :
        reachable \in BOOLEAN, certificate \in {"trusted", "untrusted"},
        protocols \in SUBSET PROTOCOL_NAMES, cipher \in CIPHER_NAMES }

\* The header dicts of the model: each header absent ("") or with one of
\* its values.
ResponseHeaders ==
    { Headers(hsts, xfo, xcto, csp, referrer, permissions, xss, srv) :
        hsts \in HEADER_VALUES["Strict-Transport-Security"] \cup {""},
        xfo \in HEADER_VALUES["X-Frame-Options"] \cup {""},
        xcto \in HEADER_VALUES["X-Content-Type-Options"] \cup {""},
        csp \in HEADER_VALUES["Content-Security-Policy"] \cup {""},
        referrer \in HEADER_VALUES["Referrer-Policy"] \cup {""},
        permissions \in HEADER_VALUES["Permissions-Policy"] \cup {""},
        xss \in HEADER_VALUES["X-XSS-Protection"] \cup {""},
        srv \in HEADER_VALUES["Server"] \cup {""} }

\* The hosts that differ in what a GET gets.
HTTPServers ==
    { Server(TRUE, "trusted", {"TLSv1.3", "TLSv1.2"}, "TLS_AES_256_GCM_SHA384",
             "ok", headers) : headers \in ResponseHeaders }
    \cup
    { Server(TRUE, "trusted", {"TLSv1.3", "TLSv1.2"}, "TLS_AES_256_GCM_SHA384",
             "timeout", COMPLIANT_HEADERS) }

InitProbes ==
    /\ pc = "probe"
    /\ url \in URLS
    /\ server \in TLSServers \cup HTTPServers
    /\ phishing_model = FALSE
    /\ scan_types = << >>
    /\ futures = << >>
    /\ task = [p \in ScanTypeNames |-> "unsubmitted"]
    /\ task_result = EmptyDict
    /\ scanner_raised = {}
    /\ dispatched_at = EmptyDict
    /\ late = {}
    /\ now = 0
    /\ idx = 1
    /\ wait_start = 0
    /\ timed_out = {}
    /\ scans = EmptyDict
    /\ overall = EmptyDict
    /\ report = EmptyDict
    /\ self_results = NO_RESULTS
    /\ other = NoScan
    /\ ApiAtRest

\* A direct call of the scanner of scan type p, with the outcome given.
CallScanner(p, outcome) ==
    /\ pc = "probe"
    /\ task[p] = "unsubmitted"
    /\ task' = [task EXCEPT ![p] = "finished"]
    /\ IF outcome.raised
       THEN /\ scanner_raised' = scanner_raised \cup {p}
            /\ UNCHANGED task_result
       ELSE /\ task_result' = DictSet(task_result, p, outcome.value)
            /\ UNCHANGED scanner_raised
    /\ UNCHANGED <<pc, phishing_model, scan_types, futures, dispatched_at, late,
                   now, idx, wait_start, timed_out, scans, overall, report>>
    /\ UNCHANGED fixed

\* self.ssl_scanner.scan(url)
ScanSSL == CallScanner("ssl", SSLScanner_scan(url, server))

\* self.headers_scanner.scan(url)
ScanHeaders == CallScanner("headers", SecurityHeadersScanner_scan(url, server))

NextProbes ==
    \/ ScanSSL
    \/ ScanHeaders

SpecProbes == InitProbes /\ [][NextProbes]_vars

---------------------------------------------------------------------------
(* The score computations on their own: the two _calculate_score methods  *)
(* applied to the same results dict (a list of issues and the protocols    *)
(* dict), and the score of the phishing scan for a probability of the      *)
(* classifier.  scans[p] is what the scanner of p is given, task_result[p] *)
(* the score and grade it computed.                                        *)

\* The issue lists given to _calculate_score have MaxScoredIssues issues at
\* most.
MaxScoredIssues == 4

\* The severities an issue is given; "" stands for an issue without the
\* key, "info" for a severity that no branch of _calculate_score names.
SCORED_SEVERITIES == {"critical", "high", "medium", "low", "info", ""}

ScoredIssue(sev) ==
    IF sev = "" THEN [message |-> "issue"] ELSE [severity |-> sev, message |-> "issue"]

ScoredIssueLists ==
    UNION { { [k \in 1..n |-> ScoredIssue(f[k])] : f \in [1..n -> SCORED_SEVERITIES] }
            : n \in 0..MaxScoredIssues }

\* results['protocols'] with TLSv1.3 as given and nothing older.
ProtocolsWith(tls13) == [n \in PROTOCOL_NAMES |-> n = "TLSv1.3" /\ tls13]

\* The probabilities predict_proba gives the phishing class, in thousandths.
Probabilities == 0..1000

\* The classifier's answer when the phishing class has the probability
\* given: predict() names the likelier class.
ClassifierSays(proba_phishing) ==
    [prediction |-> IF proba_phishing > 500 THEN 1 ELSE 0,
     proba_phishing |-> proba_phishing]

InitScoring ==
    /\ pc = "calculate_score"
    /\ url = HTTPS_URL
    /\ server = GOOD_SERVER
    /\ phishing_model = TRUE
    /\ scan_types = << >>
    /\ futures = << >>
    /\ task = [p \in ScanTypeNames |-> "unsubmitted"]
    /\ task_result = EmptyDict
    /\ scanner_raised = {}
    /\ dispatched_at = EmptyDict
    /\ late = {}
    /\ now = 0
    /\ idx = 1
    /\ wait_start = 0
    /\ timed_out = {}
    /\ \/ \E issues \in ScoredIssueLists, tls13 \in BOOLEAN :
             scans = [p \in {"ssl", "headers"} |->
                         [issues |-> issues, protocols |-> ProtocolsWith(tls13)]]
       \/ \E proba_phishing \in Probabilities :
             scans = [p \in {"phishing"} |-> ClassifierSays(proba_phishing)]
    /\ overall = EmptyDict
    /\ report = EmptyDict
    /\ self_results = NO_RESULTS
    /\ other = NoScan
    /\ ApiAtRest

\* score, grade = self._calculate_score(results) in the scanner of p
CalculateScore(p, score_and_grade) ==
    /\ pc = "calculate_score"
    /\ p \in DOMAIN scans
    /\ task[p] = "unsubmitted"
    /\ task' = [task EXCEPT ![p] = "finished"]
    /\ task_result' = DictSet(task_result, p, score_and_grade)
    /\ UNCHANGED <<pc, phishing_model, scan_types, futures, scanner_raised,
                   dispatched_at, late, now, idx, wait_start, timed_out, scans,
                   overall, report>>
    /\ UNCHANGED fixed

CalculateSSL ==
    /\ "ssl" \in DOMAIN scans
    /\ CalculateScore("ssl", SSLScanner_calculate_score(scans["ssl"]))

CalculateHeaders ==
    /\ "headers" \in DOMAIN scans
    /\ CalculateScore("headers", SecurityHeadersScanner_calculate_score(scans["headers"]))

\* The score and grade of _run_phishing_scan for the classifier's answer.
CalculatePhishing ==
    /\ "phishing" \in DOMAIN scans
    /\ CalculateScore("phishing",
                      _run_phishing_scan(phishing_model, Returned(scans["phishing"])))

NextScoring ==
    \/ CalculateSSL
    \/ CalculateHeaders
    \/ CalculatePhishing

SpecScoring == InitScoring /\ [][NextScoring]_vars

---------------------------------------------------------------------------
(* Two calls of scan() on one ComprehensiveScanner, in two threads.  The   *)
(* variables hold the local state of the call that is scheduled and        *)
(* `other` that of the call that is not; Switch schedules the other call.  *)
(* What the two calls share is the instance: phishing_model and the        *)
(* scanners with their self.results.  Time does not advance here, so no    *)
(* wait expires.                                                           *)

\* The local state of the call of scan() that is scheduled: its arguments,
\* the host its url names, its executor's futures and tasks, its results
\* dict.
ScanLocals ==
    [pc |-> pc, scan_types |-> scan_types, url |-> url, server |-> server,
     futures |-> futures, task |-> task, task_result |-> task_result,
     scanner_raised |-> scanner_raised, dispatched_at |-> dispatched_at,
     late |-> late, idx |-> idx, wait_start |-> wait_start,
     timed_out |-> timed_out, scans |-> scans, overall |-> overall,
     report |-> report]

\* The local state of a call that has just been entered.
InitialLocals(types, u, srv) ==
    [pc |-> "submit", scan_types |-> types, url |-> u, server |-> srv,
     futures |-> << >>, task |-> [p \in ScanTypeNames |-> "unsubmitted"],
     task_result |-> EmptyDict, scanner_raised |-> {}, dispatched_at |-> EmptyDict,
     late |-> {}, idx |-> 1, wait_start |-> 0, timed_out |-> {},
     scans |-> EmptyDict, overall |-> EmptyDict, report |-> EmptyDict]

\* The calls that run side by side: scan_types, url and host of each.
ConcurrentCalls ==
    { InitialLocals(QUICK_SCAN_TYPES, HTTPS_URL, GOOD_SERVER),
      InitialLocals(QUICK_SCAN_TYPES, HTTP_URL, UNREACHABLE_SERVER),
      InitialLocals(<<"ssl", "phishing">>, HTTP_URL, GOOD_SERVER),
      InitialLocals(<<"vulnerabilities">>, HTTPS_URL, GOOD_SERVER) }

InitConcurrent ==
    /\ phishing_model \in BOOLEAN
    /\ self_results = NO_RESULTS
    /\ now = 0
    /\ other \in ConcurrentCalls
    /\ ApiAtRest
    /\ \E first \in ConcurrentCalls :
          /\ pc = first.pc /\ scan_types = first.scan_types
          /\ url = first.url /\ server = first.server
          /\ futures = first.futures /\ task = first.task
          /\ task_result = first.task_result
          /\ scanner_raised = first.scanner_raised
          /\ dispatched_at = first.dispatched_at /\ late = first.late
          /\ idx = first.idx /\ wait_start = first.wait_start
          /\ timed_out = first.timed_out /\ scans = first.scans
          /\ overall = first.overall /\ report = first.report

\* Mutant: the results dict is kept on the instance, so the two calls write
\* their entries into the same dict.
Switch_SharedResults ==
    /\ other # NoScan
    /\ other' = ScanLocals
    /\ pc' = other.pc /\ scan_types' = other.scan_types
    /\ url' = other.url /\ server' = other.server
    /\ futures' = other.futures /\ task' = other.task
    /\ task_result' = other.task_result
    /\ scanner_raised' = other.scanner_raised
    /\ dispatched_at' = other.dispatched_at /\ late' = other.late
    /\ idx' = other.idx /\ wait_start' = other.wait_start
    /\ timed_out' = other.timed_out /\ scans' = scans
    /\ overall' = other.overall /\ report' = other.report
    /\ UNCHANGED <<phishing_model, self_results, now, api>>

\* The thread of the other call is scheduled: everything local to a call
\* of scan() is exchanged, the instance is not.
Switch ==
    /\ other # NoScan
    /\ other' = ScanLocals
    /\ pc' = other.pc /\ scan_types' = other.scan_types
    /\ url' = other.url /\ server' = other.server
    /\ futures' = other.futures /\ task' = other.task
    /\ task_result' = other.task_result
    /\ scanner_raised' = other.scanner_raised
    /\ dispatched_at' = other.dispatched_at /\ late' = other.late
    /\ idx' = other.idx /\ wait_start' = other.wait_start
    /\ timed_out' = other.timed_out /\ scans' = other.scans
    /\ overall' = other.overall /\ report' = other.report
    /\ UNCHANGED <<phishing_model, self_results, now, api>>

NextConcurrent ==
    \/ Submit
    \/ \E p \in ScanTypeNames : Complete(p)
    \/ ResultReturns
    \/ ExitPool
    \/ Score
    \/ Report
    \/ Switch

SpecConcurrent == InitConcurrent /\ [][NextConcurrent]_vars

---------------------------------------------------------------------------
(* A RateLimiter and its callers: is_allowed and unblock_ip are called for *)
(* a client id and an optional ip address while the clock advances.        *)

\* The limits a limiter is constructed with.
MaxPerMinute == 2
MaxPerHour == 3

\* is_allowed is called MaxCalls times at most, and the callers sleep
\* MaxSleeps times at most.
MaxCalls == 4
MaxSleeps == 2

\* How long a sleep lasts: less than the minute window, or the hour window.
SLEEPS == {45, 3600}

CLIENT_IDS == {"test_user"}

\* The ip_address arguments; "" is None.
IP_ADDRESSES == {"", "203.0.113.7"}

IDENTIFIERS == CLIENT_IDS \cup (IP_ADDRESSES \ {""})

\* The scan state while only the API objects are exercised.
NoScanRunning ==
    /\ pc = "api"
    /\ url = EMPTY_URL
    /\ server = UNREACHABLE_SERVER
    /\ phishing_model = FALSE
    /\ scan_types = << >>
    /\ futures = << >>
    /\ task = [p \in ScanTypeNames |-> "unsubmitted"]
    /\ task_result = EmptyDict
    /\ scanner_raised = {}
    /\ dispatched_at = EmptyDict
    /\ late = {}
    /\ now = 0
    /\ idx = 1
    /\ wait_start = 0
    /\ timed_out = {}
    /\ scans = EmptyDict
    /\ overall = EmptyDict
    /\ report = EmptyDict
    /\ self_results = NO_RESULTS
    /\ other = NoScan

scan_vars == <<pc, phishing_model, scan_types, futures, task, task_result,
               scanner_raised, dispatched_at, late, idx, wait_start, timed_out,
               scans, overall, report, url, server, self_results, other>>

InitRateLimiter ==
    /\ NoScanRunning
    /\ \E requests_per_minute \in 0..MaxPerMinute, requests_per_hour \in 1..MaxPerHour :
          rate_limiter = RateLimiter(requests_per_minute, requests_per_hour)
    /\ auth_manager = AuthenticationManager
    /\ api_log = NO_LOG

\* The number of is_allowed calls so far.
Calls == SumOver(DOMAIN api_log.count, api_log.count)

\* api_log after is_allowed has returned ret for the identifier.
LogIsAllowed(identifier, ret) ==
    [api_log EXCEPT
        !.count = DictSet(@, identifier, Get(@, identifier, 0) + 1),
        !.allowed = DictSet(@, identifier, Get(@, identifier, 0) + (IF ret THEN 1 ELSE 0)),
        !.first_at = DictSet(@, identifier, Get(@, identifier, now)),
        !.last_at = DictSet(@, identifier, now),
        !.last = [op |-> "is_allowed", identifier |-> identifier, ret |-> ret]]

\* Mutant: a block ends when the minute window has passed.
IsAllowed_BlockExpires(client_id, ip_address) ==
    /\ pc = "api"
    /\ Calls < MaxCalls
    /\ LET identifier == IF ip_address # "" THEN ip_address ELSE client_id
           expired == /\ identifier \in DOMAIN api_log.last_at
                      /\ now - api_log.last_at[identifier] > 60
           call == is_allowed(IF expired THEN unblock_ip(rate_limiter, identifier)
                              ELSE rate_limiter,
                              client_id, ip_address, now)
       IN  /\ rate_limiter' = call.self
           /\ api_log' = LogIsAllowed(identifier, call.ret)
    /\ UNCHANGED <<scan_vars, now, auth_manager>>

\* rate_limiter.is_allowed(client_id, ip_address)
IsAllowed(client_id, ip_address) ==
    /\ pc = "api"
    /\ Calls < MaxCalls
    /\ LET identifier == IF ip_address # "" THEN ip_address ELSE client_id
           call == is_allowed(rate_limiter, client_id, ip_address, now)
       IN  /\ rate_limiter' = call.self
           /\ api_log' = LogIsAllowed(identifier, call.ret)
    /\ UNCHANGED <<scan_vars, now, auth_manager>>

\* rate_limiter.unblock_ip(ip_address)
UnblockIp(ip_address) ==
    /\ pc = "api"
    /\ rate_limiter' = unblock_ip(rate_limiter, ip_address)
    /\ api_log' = [api_log EXCEPT
                      !.unblocked = @ \cup {ip_address},
                      !.last = [op |-> "unblock_ip", identifier |-> ip_address]]
    /\ UNCHANGED <<scan_vars, now, auth_manager>>

\* The callers sleep: the clock advances.
Sleep(seconds) ==
    /\ pc = "api"
    /\ api_log.sleeps < MaxSleeps
    /\ now' = now + seconds
    /\ api_log' = [api_log EXCEPT !.sleeps = @ + 1]
    /\ UNCHANGED <<scan_vars, rate_limiter, auth_manager>>

NextRateLimiter ==
    \/ \E client_id \in CLIENT_IDS, ip_address \in IP_ADDRESSES : IsAllowed(client_id, ip_address)
    \/ \E ip_address \in IDENTIFIERS : UnblockIp(ip_address)
    \/ \E seconds \in SLEEPS : Sleep(seconds)

SpecRateLimiter == InitRateLimiter /\ [][NextRateLimiter]_vars

---------------------------------------------------------------------------
(* An AuthenticationManager and its callers: tokens are generated,         *)
(* validated and revoked while the clock advances.                         *)

USERS == {"test_user"}

\* The expires_in arguments: at once, after less than a sleep lasts ... an
\* hour (the default).
EXPIRES_IN == {0, 45, 3600}

\* generate_token returns MaxTokens different tokens at most.
MaxTokens == 2

\* A token that generate_token never returned.
FORGED_TOKEN == Token("mallory", 0, 3600)

InitAuth ==
    /\ NoScanRunning
    /\ rate_limiter = RateLimiter(60, 1000)
    /\ auth_manager = AuthenticationManager
    /\ api_log = NO_LOG

\* token = auth_manager.generate_token(user_id, expires_in)
GenerateToken(user_id, expires_in) ==
    /\ pc = "api"
    /\ LET call == generate_token(auth_manager, user_id, expires_in, now)
       IN  /\ Cardinality(api_log.issued \cup {call.ret}) <= MaxTokens
           /\ auth_manager' = call.self
           /\ api_log' = [api_log EXCEPT
                             !.issued = @ \cup {call.ret},
                             !.revoked = @ \ {call.ret},
                             !.last = [op |-> "generate_token", token |-> call.ret]]
    /\ UNCHANGED <<scan_vars, now, rate_limiter>>

\* auth_manager.validate_token(token)
ValidateToken(token) ==
    /\ pc = "api"
    /\ LET call == validate_token(auth_manager, token, now)
       IN  /\ auth_manager' = call.self
           /\ api_log' = [api_log EXCEPT
                             !.last = [op |-> "validate_token", token |-> token,
                                       ret |-> call.ret, at |-> now,
                                       revoked |-> token \in api_log.revoked]]
    /\ UNCHANGED <<scan_vars, now, rate_limiter>>

\* auth_manager.revoke_token(token)
RevokeToken(token) ==
    /\ pc = "api"
    /\ LET call == revoke_token(auth_manager, token)
       IN  /\ auth_manager' = call.self
           /\ api_log' = [api_log EXCEPT
                             !.revoked = IF call.ret THEN @ \cup {token} ELSE @,
                             !.last = [op |-> "revoke_token", token |-> token,
                                       ret |-> call.ret]]
    /\ UNCHANGED <<scan_vars, now, rate_limiter>>

NextAuth ==
    \/ \E user_id \in USERS, expires_in \in EXPIRES_IN : GenerateToken(user_id, expires_in)
    \/ \E token \in api_log.issued \cup {EMPTY_TOKEN, FORGED_TOKEN} : ValidateToken(token)
    \/ \E token \in api_log.issued \cup {FORGED_TOKEN} : RevokeToken(token)
    \/ \E seconds \in SLEEPS : Sleep(seconds)

SpecAuth == InitAuth /\ [][NextAuth]_vars

---------------------------------------------------------------------------
(* Properties of the orchestrator, checked under Spec.                     *)

\* The scan types whose future the collecting loop has gone past.
Collected ==
    IF pc = "submit" THEN {}
    ELSE IF pc = "collect" THEN {futures[i] : i \in 1..(idx - 1)}
    ELSE Range(futures)

\* The scorer has been called.
ScorerCalled == pc \in {"report", "done"}

\* C1: when scan() reaches the scorer, and when it returns, results['scans']
\* holds an entry for exactly the requested scan types among ssl, headers,
\* vulnerabilities, phishing, however each task ended (returned, returned an
\* error dict, raised inside its wrapper, timed out); the scorer works on
\* that full set: its scanners_run and scanner_scores name every one.
C1_AllCollectedBeforeScoring ==
    /\ pc \in {"exit_pool", "score", "report", "done"} =>
          /\ DOMAIN scans = Requested
          /\ Range(futures) = Requested
    /\ ScorerCalled =>
          /\ Range(overall.summary.scanners_run) = Requested
          /\ DOMAIN overall.scanner_scores = Requested

\* A scan of all four types has returned after one task timed out, one
\* scanner raised and one returned an error dict.
C1_Witness ==
    /\ pc = "done"
    /\ Requested = ScanTypeNames
    /\ timed_out # {}
    /\ scanner_raised \ timed_out # {}
    /\ \E p \in ScanTypeNames \ scanner_raised :
          p \notin timed_out /\ "error" \in DOMAIN scans[p]

\* C2: no exception leaves scan(); a scanner that raises or a task that
\* times out leaves an error entry for its own scan type and the loop goes
\* on; the entry of every scan type the loop has gone past stays the
\* synthetic entry (timed out) or exactly the value its task returned
\* (otherwise), whatever happens to the others.
C2_FailureIsolated ==
    /\ pc # "raised"
    /\ timed_out \subseteq Collected
    /\ \A p \in Collected :
          /\ p \in DOMAIN scans
          /\ p \in timed_out => scans[p] = ResultExceptionEntry("")
          /\ p \notin timed_out => p \in DOMAIN task_result /\ scans[p] = task_result[p]
          /\ p \in scanner_raised \cup timed_out => "error" \in DOMAIN scans[p]

\* A later task timed out after an earlier one had returned an ordinary
\* result, and the scan returned.
C2_Witness ==
    /\ pc = "done"
    /\ \E i, j \in 1..Len(futures) :
          /\ i < j
          /\ futures[j] \in timed_out
          /\ futures[i] \notin timed_out
          /\ "error" \notin DOMAIN scans[futures[i]]
    /\ \E p \in scanner_raised : p \notin timed_out

\* C3: every task that had not returned 30 s after it was submitted is
\* recorded with the synthetic error entry.
C3_TimeoutPerDispatch ==
    pc = "done" => \A p \in late : scans[p] = ResultExceptionEntry("")

\* C4: once every submitted task has an entry in results['scans'], scan()
\* goes on to score and return without waiting for a task it has given up.
C4_StopsWaiting ==
    pc = "exit_pool" => ENABLED ExitPool

\* C5: every entry with `error` set has score 0, grade F and at least one
\* critical issue.
C5_ErrorEntryShape ==
    \A p \in DOMAIN scans :
        "error" \in DOMAIN scans[p] =>
            /\ scans[p].score = 0
            /\ scans[p].grade = "F"
            /\ "issues" \in DOMAIN scans[p]
            /\ \E i \in 1..Len(scans[p].issues) :
                  Get(scans[p].issues[i], "severity", "low") = "critical"

\* C6 as claimed: scan_complete is true iff every requested scan type has an
\* entry in results['scans'].
C6_CompleteIffRequestedPresent ==
    pc = "done" => (overall.summary.scan_complete <=> Requested \subseteq DOMAIN scans)

\* C6 as amended: every requested scan type among the four has an entry,
\* and scan_complete is true iff the request named all four; for a reduced
\* request such as quick_scan's it is false.
C6_CompleteIffAllFourRequested ==
    pc = "done" =>
        /\ Requested \subseteq DOMAIN scans
        /\ overall.summary.scan_complete <=> (Requested = ScanTypeNames)

\* quick_scan has returned: both its scan types have entries and
\* scan_complete is false.
C6_Witness ==
    /\ pc = "done"
    /\ scan_types = QUICK_SCAN_TYPES
    /\ DOMAIN scans = {"ssl", "headers"}
    /\ ~overall.summary.scan_complete

---------------------------------------------------------------------------
(* Properties of the scorer, checked under SpecScorer.                     *)

\* calculate_overall_score has returned.
Scored1 == DOMAIN overall # {}

\* C7: the summary's scan_complete is true iff the keys of the results dict
\* are exactly ssl, headers, vulnerabilities and phishing, whether or not
\* the entries carry errors, scores or issues.
C7_CompleteIffFourKeys ==
    Scored1 => (overall.summary.scan_complete <=> DOMAIN scans = ScanTypeNames)

\* The scorer has run on four entries of which one is an error entry, and
\* reports the scan complete.
C7_Witness ==
    /\ Scored1
    /\ overall.summary.scan_complete
    /\ \E p \in DOMAIN scans : "error" \in DOMAIN scans[p]
    /\ \E p \in DOMAIN scans : "issues" \notin DOMAIN scans[p]

\* The eleven grades with the least score (in tenths) of each; F has none.
GRADE_LIMITS ==
    << <<950, "A+">>, <<900, "A">>, <<850, "A-">>, <<800, "B+">>, <<750, "B">>,
       <<700, "B-">>, <<650, "C+">>, <<600, "C">>, <<550, "C-">>, <<500, "D">> >>

\* C8: overall_score lies in [0,100] and the grade is the first of A+, A, A-,
\* B+, B, B-, C+, C, C-, D whose limit 95/90/85/80/75/70/65/60/55/50 the
\* score reaches, and F if it reaches none; for every subset of scan types
\* present, the empty one included.
C8_ScoreAndGradeInRange ==
    Scored1 =>
        /\ overall.overall_score \in 0..1000
        /\ LET reached == {i \in 1..Len(GRADE_LIMITS) :
                              overall.overall_score >= GRADE_LIMITS[i][1]}
           IN  overall.grade =
                  IF reached = {} THEN "F"
                  ELSE GRADE_LIMITS[CHOOSE i \in reached : \A j \in reached : i <= j][2]

\* A reduced set of scanners with differing scores whose overall score is
\* exactly 50.0, graded D.
C8_Witness ==
    /\ Scored1
    /\ DOMAIN scans # ScanTypeNames
    /\ \E p, q \in DOMAIN scans : scans[p].score # scans[q].score
    /\ overall.overall_score = 500
    /\ overall.grade = "D"

\* C9: the four counts of issues_by_severity add up to total_issues.
C9_CountsSumToTotal ==
    Scored1 =>
        overall.issues_by_severity["critical"] + overall.issues_by_severity["high"]
        + overall.issues_by_severity["medium"] + overall.issues_by_severity["low"]
        = overall.total_issues

\* The rank of an issue in the order of all_issues: critical, high, medium,
\* low, then any other severity; an issue without a severity counts as low.
ClaimedRank(issue) ==
    IF "severity" \notin DOMAIN issue THEN 3
    ELSE CASE issue.severity = "critical" -> 0
           [] issue.severity = "high" -> 1
           [] issue.severity = "medium" -> 2
           [] issue.severity = "low" -> 3
           [] OTHER -> 4

\* The place of a scan type in the order of the results dict.
KeyIndex(p) == CHOOSE i \in 1..Len(SCAN_ORDER) : SCAN_ORDER[i] = p

\* The issues of all_issues that carry the tag p, in the order of all_issues.
IssuesOf(all, p) == SelectSeq(all, LAMBDA issue : issue.scanner = p)

\* An issue without its tag.
Untagged(issue) == [k \in DOMAIN issue \ {"scanner"} |-> issue[k]]

\* C10: all_issues holds every issue of every entry exactly once, tagged
\* with the scan type it came from (the issues tagged p are the issues of
\* entry p, in their order); it is in the order critical, high, medium, low,
\* other; and issues of equal rank keep the order of the entries.
C10_AllIssuesSortedStable ==
    Scored1 =>
        LET all == overall.all_issues
        IN  /\ \A i \in 1..Len(all) : all[i].scanner \in DOMAIN scans
            /\ \A p \in DOMAIN scans :
                  LET mine == IssuesOf(all, p)
                      issues == Get(scans[p], "issues", << >>)
                  IN  /\ Len(mine) = Len(issues)
                      /\ \A k \in 1..Len(issues) :
                            \E i \in 1..Len(mine) :
                               /\ Untagged(mine[i]) = issues[k]
                               /\ \A k2 \in 1..Len(issues), i2 \in 1..Len(mine) :
                                     (/\ Untagged(mine[i2]) = issues[k2]
                                      /\ ClaimedRank(issues[k]) = ClaimedRank(issues[k2])
                                      /\ k < k2) => i < i2
            /\ \A i, j \in 1..Len(all) :
                  i < j =>
                     /\ ClaimedRank(all[i]) <= ClaimedRank(all[j])
                     /\ ClaimedRank(all[i]) = ClaimedRank(all[j]) =>
                           KeyIndex(all[i].scanner) <= KeyIndex(all[j].scanner)

\* Three scanners' issues have been merged: an issue of unknown severity and
\* one without severity from the vulnerability scan, a critical one from a
\* later entry, and two of equal severity from one scanner.
C10_Witness ==
    /\ Scored1
    /\ Len(overall.all_issues) >= 5
    /\ "vulnerabilities" \in DOMAIN scans
    /\ Len(scans["vulnerabilities"].issues) = 2
    /\ Get(scans["vulnerabilities"].issues[1], "severity", "") = "info"
    /\ "severity" \notin DOMAIN scans["vulnerabilities"].issues[2]
    /\ "phishing" \in DOMAIN scans
    /\ Len(scans["phishing"].issues) = 1
    /\ "ssl" \in DOMAIN scans
    /\ Len(scans["ssl"].issues) = 2
    /\ scans["ssl"].issues[1].severity = scans["ssl"].issues[2].severity
    /\ overall.all_issues[Len(overall.all_issues)].severity = "info"

---------------------------------------------------------------------------
(* The weighted mean, checked under SpecScorer.                            *)

\* The weight of scan type p (in hundredths) if it has an entry, else 0.
PresentWeight(p) ==
    IF p \notin DOMAIN scans THEN 0
    ELSE CASE p = "ssl" -> 25
           [] p = "headers" -> 20
           [] p = "vulnerabilities" -> 30
           [] p = "phishing" -> 25

PresentScore(p) == IF p \in DOMAIN scans THEN scans[p].score ELSE 0

Abs(x) == IF x < 0 THEN -x ELSE x

\* C11: overall_score is the mean of the present scan types' scores with the
\* weights 0.25, 0.20, 0.30, 0.25, divided by the sum of the weights present
\* and rounded to the nearest tenth; an absent scan type enters neither
\* sum, so when all the present scores are equal overall_score is that score.
C11_WeightedMeanOfPresent ==
    Scored1 /\ DOMAIN scans # {} =>
        LET num == PresentWeight("ssl") * PresentScore("ssl")
                   + PresentWeight("headers") * PresentScore("headers")
                   + PresentWeight("vulnerabilities") * PresentScore("vulnerabilities")
                   + PresentWeight("phishing") * PresentScore("phishing")
            den == PresentWeight("ssl") + PresentWeight("headers")
                   + PresentWeight("vulnerabilities") + PresentWeight("phishing")
        IN  /\ 2 * Abs(overall.overall_score * den - 10 * num) <= den
            /\ \A p \in DOMAIN scans :
                  (\A q \in DOMAIN scans : scans[q].score = scans[p].score)
                      => overall.overall_score = 10 * scans[p].score

\* The scorer has run on ssl 100 and headers 50 alone: 77.8, not the 45.0
\* that absent scan types counted as zero would give.
C11_Witness ==
    /\ Scored1
    /\ DOMAIN scans = {"ssl", "headers"}
    /\ scans["ssl"].score = 100
    /\ scans["headers"].score = 50
    /\ overall.overall_score = 778

---------------------------------------------------------------------------
(* Two scans that differ in their scan_types, checked under Spec.          *)

\* What a scan of p alone records for p when p's task behaves as it does
\* here: p's future is then the first one collected, so its wait starts at
\* the submission; a task that is not back 30 s later is recorded with the
\* entry of the except clause, a task that is back earlier with its value
\* (a task that returns as the wait expires may be recorded either way).
AloneEntries(p) ==
    IF p \in late
    THEN {ResultExceptionEntry("")}
    ELSE {task_result[p], ResultExceptionEntry("")}

\* The scans of one scan type record it as AloneEntries says.
AloneEntriesOfSingleScans ==
    pc = "done" /\ Cardinality(Requested) = 1 =>
        \A p \in Requested :
            /\ scans[p] \in AloneEntries(p)
            /\ p \notin timed_out => scans[p] = task_result[p]

\* C12: the entry and the scanner_scores value of a scan type do not depend
\* on which other scan types were requested: they are the ones a scan of
\* that type alone records for the same behaviour of its scanner, and
\* scanner_scores[p] is the score of p's entry.
C12_EntryIndependentOfScanTypes ==
    pc = "done" =>
        \A p \in Requested :
            /\ scans[p] \in AloneEntries(p)
            /\ overall.scanner_scores[p] = scans[p].score

---------------------------------------------------------------------------
(* Malformed urls and failed scans, checked under Spec.                    *)

\* The url is empty or is no absolute url: it has no scheme or no host.
Malformed(u) == u.scheme = "" \/ u.hostname = ""

\* C13: a scan whose url is empty or no absolute url is rejected before
\* anything is submitted: no task is ever submitted or run for it, and it
\* does not go on to collect, score and return a report.
C13_MalformedUrlRejected ==
    Malformed(url) =>
        /\ futures = << >>
        /\ \A p \in ScanTypeNames : task[p] = "unsubmitted"
        /\ pc \notin {"collect", "score", "report", "done"}

\* The scan type p has failed: its scanner raised, its wait timed out, or
\* (for the three scanners) it returned an error dict.
Failed(p) ==
    \/ p \in scanner_raised \cup timed_out
    \/ p # "phishing" /\ p \in DOMAIN scans /\ "error" \in DOMAIN scans[p]

\* C14: when all four scan types of a standard scan have failed, scan()
\* returns a report with the four entries in which every scan type counts
\* with score 0, so that overall_score is 0 and the grade F.
C14_AllFailedScoresZero ==
    pc = "done" /\ Requested = ScanTypeNames /\ (\A p \in ScanTypeNames : Failed(p)) =>
        /\ DOMAIN scans = ScanTypeNames
        /\ \A p \in ScanTypeNames : overall.scanner_scores[p] = 0
        /\ overall.overall_score = 0
        /\ overall.grade = "F"

\* C17: without a classifier the phishing task returns the neutral result:
\* score 50, grade C, no issues and no error key.
C17_NeutralWithoutClassifier ==
    ~phishing_model /\ "phishing" \in DOMAIN task_result =>
        /\ task_result["phishing"].score = 50
        /\ task_result["phishing"].grade = "C"
        /\ task_result["phishing"].issues = << >>
        /\ "error" \notin DOMAIN task_result["phishing"]

---------------------------------------------------------------------------
(* Properties of the SSL and headers scanners, checked under SpecProbes.   *)

\* The SSL scanner has been called and has returned or raised.
SSLScanned == task["ssl"] = "finished"

HeadersScanned == task["headers"] = "finished"

\* The url names a host (urlparse gives a hostname).
HasHost(u) == u.hostname # ""

\* C15: for a url with a host and a scheme other than https, SSLScanner.scan
\* returns score 0, grade F and the one critical issue that the site does
\* not use HTTPS, and makes none of the certificate, protocol and cipher
\* checks.
C15_NotHttpsShortCircuits ==
    SSLScanned /\ HasHost(url) /\ url.scheme # "https" =>
        /\ "ssl" \notin scanner_raised
        /\ "ssl" \in DOMAIN task_result
        /\ task_result["ssl"].score = 0
        /\ task_result["ssl"].grade = "F"
        /\ Len(task_result["ssl"].issues) = 1
        /\ task_result["ssl"].issues[1].severity = "critical"
        /\ task_result["ssl"].issues[1].message = "Website does not use HTTPS encryption"
        /\ DOMAIN task_result["ssl"] \cap {"certificate", "protocols", "ciphers"} = {}

\* C16: for an https url whose host gives no certificate to the scanner (it
\* cannot be reached, or the handshake fails), the SSL result has the error
\* key, score 0 and grade F.
C16_NoCertificateIsError ==
    SSLScanned /\ HasHost(url) /\ url.scheme = "https" /\ url.port # INVALID_PORT
               /\ ~DefaultHandshake(server) =>
        /\ "ssl" \in DOMAIN task_result
        /\ "error" \in DOMAIN task_result["ssl"]
        /\ task_result["ssl"].score = 0
        /\ task_result["ssl"].grade = "F"

\* The six required headers, with values that pass every check.
SixCompliant(headers) ==
    \A h \in DOMAIN COMPLIANT_HEADERS :
        h \in DOMAIN headers /\ headers[h] = COMPLIANT_HEADERS[h]

\* C18: for an https host with a trusted certificate that accepts TLSv1.3
\* and neither TLSv1.0 nor TLSv1.1 and negotiates a strong cipher, the SSL
\* result records TLSv1.3 as supported, has no issue and a score of 95 or
\* more; for a response with the six required headers with compliant values
\* the headers result has a score of 95 or more and no issue.
C18_GoodTargetScoresHigh ==
    /\ SSLScanned /\ HasHost(url) /\ url.scheme = "https" /\ url.port # INVALID_PORT
                  /\ DefaultHandshake(server)
                  /\ "TLSv1.3" \in server.protocols
                  /\ server.protocols \cap {"TLSv1.0", "TLSv1.1"} = {}
                  /\ server.cipher = "TLS_AES_256_GCM_SHA384" =>
          /\ "ssl" \in DOMAIN task_result
          /\ task_result["ssl"].protocols["TLSv1.3"]
          /\ task_result["ssl"].issues = << >>
          /\ task_result["ssl"].score >= 95
    /\ HeadersScanned /\ ~HttpGet(url, server).raised
                      /\ SixCompliant(HttpGet(url, server).value) =>
          /\ task_result["headers"].score >= 95
          /\ task_result["headers"].issues = << >>

---------------------------------------------------------------------------
(* Dispatch, checked under Spec.                                           *)

\* C19: in one scan a task is submitted once for every requested scan type
\* and for nothing else: a name listed twice is submitted once, the number
\* of tasks submitted never exceeds the number of distinct requested scan
\* types (at most 4), and nothing is submitted again after a failure or a
\* timeout: a finished task stays finished and keeps its submission time.
C19_DispatchedExactlyOnce ==
    /\ [](/\ \A p \in ScanTypeNames :
                Occurrences(p, futures) = IF task[p] = "unsubmitted" THEN 0 ELSE 1
          /\ Range(futures) \subseteq Requested
          /\ Len(futures) <= Cardinality(Requested)
          /\ Cardinality(Requested) <= 4
          /\ pc # "submit" => Range(futures) = Requested)
    /\ [][\A p \in ScanTypeNames :
              /\ task[p] = "finished" => task'[p] = "finished"
              /\ task[p] # "unsubmitted" =>
                    /\ task'[p] # "unsubmitted"
                    /\ dispatched_at'[p] = dispatched_at[p]]_vars

\* A scan of ['ssl', 'ssl'] has returned after its one ssl task timed out.
C19_Witness ==
    /\ pc = "done"
    /\ scan_types = <<"ssl", "ssl">>
    /\ futures = <<"ssl">>
    /\ "ssl" \in timed_out

---------------------------------------------------------------------------
(* Two concurrent scans, checked under SpecConcurrent.                     *)

\* The call with local state l stands as it does when it runs alone: every
\* entry of its results is what one of its own tasks returned for its own
\* url and host, nothing else is in its results, and its scores and report
\* are the scorer's for those results.
AsAlone(l) ==
    /\ DOMAIN l.scans \subseteq Range(l.scan_types) \cap ScanTypeNames
    /\ \A p \in DOMAIN l.scans :
          /\ p \in DOMAIN l.task_result
          /\ l.scans[p] = l.task_result[p]
          /\ \E outcome \in ScannerOutcomesAt(p, l.url, l.server) :
                l.scans[p] = TaskBody(p, phishing_model, outcome)
    /\ l.pc \in {"exit_pool", "score", "report", "done"} =>
          DOMAIN l.scans = Range(l.scan_types) \cap ScanTypeNames
    /\ l.pc \in {"report", "done"} => l.overall \in calculate_overall_score(l.scans)
    /\ l.pc = "done" => l.report = generate_report_data(l.scans, l.overall)

\* C20: two calls of scan() that run concurrently on one instance do not
\* interfere: at every point of every interleaving each call stands as it
\* does alone, and returns the report of its own url and scan types; the
\* scanners' shared attributes are never written.
C20_ConcurrentScansIndependent ==
    /\ AsAlone(ScanLocals)
    /\ AsAlone(other)
    /\ self_results = NO_RESULTS

\* Both calls have returned, one for an https url and one for an http url,
\* each with its own SSL entry.
C20_Witness ==
    /\ pc = "done"
    /\ other.pc = "done"
    /\ url # other.url
    /\ "ssl" \in DOMAIN scans
    /\ "ssl" \in DOMAIN other.scans
    /\ scans["ssl"] # other.scans["ssl"]

---------------------------------------------------------------------------
(* The scanners' scores, checked under SpecScoring.                        *)

\* Number of issues of the list that carry the severity.
CountSeverity(issues, sev) ==
    Cardinality({k \in 1..Len(issues) : Get(issues[k], "severity", "low") = sev})

\* Section 4.1.1: 100 minus 30/15/10/5 per critical/high/medium/low issue,
\* clamped to [0,100]; then the TLS1.3 bonus, clamped again.
TwoStepScore(issues, tls13) ==
    LET deducted == 100 - 30 * CountSeverity(issues, "critical")
                        - 15 * CountSeverity(issues, "high")
                        - 10 * CountSeverity(issues, "medium")
                        - 5 * CountSeverity(issues, "low")
        clamped == Max(0, Min(100, deducted))
    IN  Max(0, Min(100, clamped + (IF tls13 THEN 5 ELSE 0)))

\* C23: for every issue list and TLS1.3 flag, SSLScanner._calculate_score
\* returns the score of the two-step formula (clamp, add the bonus, clamp).
C23_TwoStepClamp ==
    "ssl" \in DOMAIN task_result =>
        task_result["ssl"].score =
            TwoStepScore(scans["ssl"].issues, scans["ssl"].protocols["TLSv1.3"])

\* C24: for every issue list, SecurityHeadersScanner._calculate_score
\* returns the score and grade SSLScanner._calculate_score returns for the
\* same issues when TLS1.3 is not supported.
C24_HeadersScoreAsSSLWithoutBonus ==
    /\ {"ssl", "headers"} \subseteq DOMAIN task_result
    /\ ~scans["ssl"].protocols["TLSv1.3"]
    => task_result["headers"] = task_result["ssl"]

---------------------------------------------------------------------------
(* The HSTS checks of the header scanner, checked under SpecProbes.        *)

\* The value of the max-age directive of an HSTS header value, read as
\* RFC 6797 reads it (directive names are case-insensitive); -1 if the
\* value has no max-age directive.
DirectiveMaxAge(value) ==
    CASE value = "max-age=31536000; includeSubDomains" -> 31536000
      [] value = "max-age=31536000" -> 31536000
      [] value = "max-age=100" -> 100
      [] value = "Max-Age=100; includeSubDomains" -> 100
      [] OTHER -> -1

\* TRUE iff the HSTS header value carries the includeSubDomains directive.
HasIncludeSubDomains(value) ==
    value \in { "max-age=31536000; includeSubDomains", "includeSubDomains",
                "Max-Age=100; includeSubDomains" }

\* The severities of the issues the scan reported on the HSTS header.
HstsSeverities ==
    LET issues == task_result["headers"].issues
    IN  { issues[k].severity :
            k \in {j \in 1..Len(issues) :
                     Get(issues[j], "header", "") = "Strict-Transport-Security"} }

\* C25: for a present Strict-Transport-Security header the scan reports a
\* high issue iff max-age is missing, a medium issue iff max-age is present
\* with a value below 31536000, a low issue iff includeSubDomains is
\* missing, and never a critical one.
C25_HstsIssues ==
    /\ HeadersScanned
    /\ "headers" \in DOMAIN task_result
    /\ "error" \notin DOMAIN task_result["headers"]
    /\ "Strict-Transport-Security" \in DOMAIN server.headers
    => LET value == server.headers["Strict-Transport-Security"]
       IN  /\ "high" \in HstsSeverities <=> DirectiveMaxAge(value) = -1
           /\ "medium" \in HstsSeverities <=>
                 (DirectiveMaxAge(value) # -1 /\ DirectiveMaxAge(value) < 31536000)
           /\ "low" \in HstsSeverities <=> ~HasIncludeSubDomains(value)
           /\ "critical" \notin HstsSeverities

---------------------------------------------------------------------------
(* The phishing score, checked under SpecScoring.                          *)

\* C26: for every probability of the phishing class the phishing scan's
\* score is the integer nearest to (1 - p) * 100 and lies in 0..100.  With
\* p in thousandths, (1 - p) * 100 is (1000 - p) / 10.
C26_PhishingScoreIsRounded ==
    "phishing" \in DOMAIN task_result =>
        LET score == task_result["phishing"].score
            exact10 == 1000 - scans["phishing"].proba_phishing
        IN  /\ score \in 0..100
            /\ Abs(10 * score - exact10) <= 5

---------------------------------------------------------------------------
(* The ranking of the recommendations, checked under SpecScorer.           *)

\* The priority of section 4.2: the base of the severity (an issue without
\* severity counts as low, a severity outside the four has no base) plus
\* one bonus.
ClaimedPriority(issue) ==
    LET severity == Get(issue, "severity", "low")
        base == CASE severity = "critical" -> 100
                  [] severity = "high" -> 75
                  [] severity = "medium" -> 50
                  [] severity = "low" -> 25
                  [] OTHER -> 0
        bonus == CASE Get(issue, "type", "") = "sqli" -> 20
                   [] Get(issue, "type", "") = "xss" -> 15
                   [] Get(issue, "scanner", "") = "ssl" -> 10
                   [] OTHER -> 0
    IN  base + bonus

\* The recommendations of the issues that carry one, each with the claimed
\* priority, in the order of all_issues.
ClaimedRecommendations ==
    LET with_rec == SelectSeq(overall.all_issues,
                              LAMBDA issue : "recommendation" \in DOMAIN issue)
    IN  [i \in 1..Len(with_rec) |->
            [Recommendation(with_rec[i]) EXCEPT !.priority = ClaimedPriority(with_rec[i])]]

\* The recommendations that are not in top_recommendations.
LeftOut ==
    { r \in Range(ClaimedRecommendations) :
        Occurrences(r, ClaimedRecommendations) > Occurrences(r, overall.top_recommendations) }

\* C27: top_recommendations has at most 10 entries, each the recommendation
\* of an issue with the priority severity base + one bonus, in
\* non-increasing priority; a recommendation is left out only when the list
\* is full, and then its priority is not above that of any entry kept.
C27_TopRecommendations ==
    Scored1 =>
        LET top == overall.top_recommendations
        IN  /\ Len(top) <= 10
            /\ \A i, j \in 1..Len(top) : i < j => top[i].priority >= top[j].priority
            /\ \A r \in Range(top) : Occurrences(r, top) <= Occurrences(r, ClaimedRecommendations)
            /\ \A r \in LeftOut :
                  /\ Len(top) = 10
                  /\ \A i \in 1..Len(top) : top[i].priority >= r.priority

\* Eleven or twelve recommendations competed; one left out ranks strictly
\* below the last one kept, and an SQL injection is among those kept.
C27_Witness ==
    /\ Scored1
    /\ Len(ClaimedRecommendations) > 10
    /\ Len(overall.top_recommendations) = 10
    /\ \E r \in LeftOut : r.priority < overall.top_recommendations[10].priority
    /\ \E i \in 1..10 : overall.top_recommendations[i].priority \in {120, 95, 70, 45, 20}

\* The rank of a recommendation's severity: critical first, unknown last.
SeverityRank(severity) ==
    CASE severity = "critical" -> 0
      [] severity = "high" -> 1
      [] severity = "medium" -> 2
      [] severity = "low" -> 3
      [] OTHER -> 4

\* C28: in top_recommendations no entry of a lower severity stands before
\* an entry of a strictly higher severity.
C28_RankingKeepsSeverityOrder ==
    Scored1 =>
        LET top == overall.top_recommendations
        IN  \A i, j \in 1..Len(top) :
               i < j => SeverityRank(top[i].severity) <= SeverityRank(top[j].severity)

\* A recommendation with the largest bonus stands right behind one of the
\* next higher severity that has no bonus.
C28_Witness ==
    /\ Scored1
    /\ LET top == overall.top_recommendations
       IN  \E i \in 1..(Len(top) - 1) :
              /\ SeverityRank(top[i].severity) + 1 = SeverityRank(top[i + 1].severity)
              /\ top[i].priority - top[i + 1].priority = 5

---------------------------------------------------------------------------
(* Late completions, checked under Spec.                                   *)

\* C29: an entry of results['scans'] is written once: the entry of a scan
\* type that timed out is the synthetic error entry and stays it when the
\* task returns later, and no step changes an entry, the overall results or
\* the report once they are written.
C29_EntryWrittenOnce ==
    /\ [](\A p \in timed_out \cap DOMAIN scans : scans[p] = ResultExceptionEntry(""))
    /\ [][/\ \A p \in DOMAIN scans : p \in DOMAIN scans' /\ scans'[p] = scans[p]
          /\ DOMAIN overall # {} => overall' = overall
          /\ DOMAIN report # {} => report' = report]_vars

\* scan() has returned; a task whose wait timed out has returned since, with
\* a result that is not the entry written for it.
C29_Witness ==
    /\ pc = "done"
    /\ \E p \in timed_out :
          /\ task[p] = "finished"
          /\ p \in DOMAIN task_result
          /\ task_result[p] # scans[p]
          /\ scans[p] = ResultExceptionEntry("")
          /\ report = generate_report_data(scans, overall)

---------------------------------------------------------------------------
(* The rate limiter, checked under SpecRateLimiter.                        *)

\* C21: for a fresh limiter whose minute limit N is not above its hour
\* limit, of the is_allowed calls made for one identifier within one minute
\* (and without unblock_ip) the first N returned True and every later one
\* False: after k calls, min(k, N) were allowed.
C21_FirstNAllowed ==
    \A identifier \in DOMAIN api_log.count :
        /\ rate_limiter.requests_per_minute <= rate_limiter.requests_per_hour
        /\ api_log.last_at[identifier] - api_log.first_at[identifier] <= 60
        /\ identifier \notin api_log.unblocked
        => api_log.allowed[identifier] =
              Min(api_log.count[identifier], rate_limiter.requests_per_minute)

\* Within a minute an identifier has made more calls than a limit of two
\* allows: the last one was refused.
C21_Witness ==
    /\ rate_limiter.requests_per_minute = 2
    /\ \E identifier \in DOMAIN api_log.count :
          /\ api_log.count[identifier] > 3
          /\ api_log.allowed[identifier] = 2
          /\ api_log.last_at[identifier] - api_log.first_at[identifier] = 45
          /\ identifier \notin api_log.unblocked
          /\ api_log.last = [op |-> "is_allowed", identifier |-> identifier, ret |-> FALSE]

\* The entries of a request log that are inside the window at the time.
InWindow(requests, current_time, window) ==
    Cardinality({k \in 1..Len(requests) : current_time - requests[k] <= window})

\* The step is a call of is_allowed for the identifier.
IsAllowedStep(identifier) ==
    Get(api_log'.count, identifier, 0) # Get(api_log.count, identifier, 0)

\* C30: a block is sticky.  An is_allowed call that returned False left its
\* identifier blocked; a call for a blocked identifier returns False and
\* leaves the limiter as it is, whatever the time; only unblock_ip ends the
\* block, and it leaves the request logs as they are; a call for an
\* identifier that is not blocked returns True iff its entries inside the
\* minute window and inside the hour window are below the two limits.
C30_BlockIsSticky ==
    /\ [](api_log.last.op = "is_allowed" /\ ~api_log.last.ret
             => api_log.last.identifier \in rate_limiter.blocked_ips)
    /\ [][\A identifier \in IDENTIFIERS :
             /\ identifier \in rate_limiter.blocked_ips /\ IsAllowedStep(identifier)
                   => ~api_log'.last.ret /\ rate_limiter' = rate_limiter
             /\ identifier \in rate_limiter.blocked_ips
                /\ identifier \notin rate_limiter'.blocked_ips
                   => /\ api_log'.last = [op |-> "unblock_ip", identifier |-> identifier]
                      /\ rate_limiter'.minute_requests = rate_limiter.minute_requests
                      /\ rate_limiter'.hour_requests = rate_limiter.hour_requests
             /\ identifier \notin rate_limiter.blocked_ips /\ IsAllowedStep(identifier)
                   => (api_log'.last.ret <=>
                         /\ InWindow(Deque(rate_limiter.minute_requests, identifier), now, 60)
                               < rate_limiter.requests_per_minute
                         /\ InWindow(Deque(rate_limiter.hour_requests, identifier), now, 3600)
                               < rate_limiter.requests_per_hour)]_vars

\* An identifier is refused although every request in its logs is older
\* than both windows.
C30_Witness ==
    /\ api_log.last.op = "is_allowed"
    /\ ~api_log.last.ret
    /\ LET identifier == api_log.last.identifier
       IN  /\ identifier \in rate_limiter.blocked_ips
           /\ rate_limiter.hour_requests[identifier] # << >>
           /\ \A k \in 1..Len(rate_limiter.hour_requests[identifier]) :
                 now - rate_limiter.hour_requests[identifier][k] > 3600

---------------------------------------------------------------------------
(* The authentication manager, checked under SpecAuth.                     *)

\* C22: validate_token accepts a token that generate_token returned until
\* the token expires or is revoked, and rejects it from its expiry time on:
\* a token generated with expires_in = 0 is rejected in the second it was
\* generated in.
C22_ValidUntilExpiryOrRevoked ==
    /\ api_log.last.op = "validate_token"
    /\ api_log.last.token \in api_log.issued
    => (api_log.last.ret <=>
          /\ ~api_log.last.revoked
          /\ api_log.last.at < api_log.last.token.expires_at)

====
